---- MODULE Spec2Model ----
(***************************************************************************)
(* Primary/replica connection manager of go-libs (pkg/postgres): the      *)
(* MasterSlaveConnection with its health-check goroutine, and the         *)
(* Connection it builds its handles from.                                  *)
(***************************************************************************)
EXTENDS Integers, Sequences, FiniteSets, TLC

(* ------------------------------ bounds -------------------------------- *)
\* largest FailoverRetries a configuration is drawn with (the other value
\* drawn is 0)
MaxFailoverRetries == 2
\* number of health goroutines the Connect() calls ever start
MaxMonitors == 2
\* number of Connect() and Close() calls the owner thread makes
MaxCalls == 3
\* number of Connection handles ever stored in a slot
MaxHandles == 4
\* largest MaxRetries a Connection is configured with
MaxRetriesBound == 3
\* number of Connect() and Close() calls made on a Redis connection
MaxRedisCalls == 3
\* number of amqp connections a RabbitMQ Connection ever dials with success
MaxAmqpConns == 3
\* largest MaxRetries the RabbitMQ Connection is configured with (the
\* smallest is -1)
MaxAmqpRetries == 1
\* number of Connect() and Close() calls the owner of a RabbitMQ Connection
\* makes
MaxAmqpCalls == 2
\* number of messages the broker delivers to a RabbitMQ consumer
MaxDeliveries == 3
\* largest batchSize a BatchConsumer is constructed with
MaxBatchSize == 2
\* number of batches poll() hands to a Kafka partition consumer
MaxBatches == 2
\* largest number of records in one of those batches
MaxBatchLen == 2
\* batches the recs channel buffers in the model (5 in the code)
MaxBuffered == 2
\* largest MaxRetries a RabbitMQ Connection is configured with
MaxDialRetries == 3
\* number of Stop() calls that end a consume loop of a RabbitMQ consumer
MaxRestarts == 2
\* the partitions of the topic a Kafka client consumes
Partitions == {1, 2}
\* number of partition consumers assigned() ever creates
MaxConsumers == 3
\* number of PollRecords calls that return records
MaxPolls == 2
\* the topics a Kafka Connection may name in its config or register a
\* service for
Topics == {1, 2, 3}

VARIABLES
    cfg,          \* MasterSlaveConfig (read-only after construction)
    up,           \* environment: is the endpoint of each side reachable
    masterConn,   \* c.masterConn: 0 is nil, otherwise an index into hs
    slaveConn,    \* c.slaveConn
    role,         \* c.role
    hs,           \* the Connection objects created so far
    tickers,      \* the time.Tickers created so far: running?, tick buffered in C?
    healthTicker, \* c.healthTicker: 0 is nil, otherwise an index into tickers
    stopClosed,   \* c.stopChan has been closed
    mu,           \* c.mu: 0 no writer, i > 0 write-locked by health goroutine
                  \* i, -1 write-locked by the owner thread's Close()
    rd,           \* the caller thread of the accessors: its position inside
                  \* IsHealthy(ctx) / Stats(), where it holds the read lock
    closeMasterErr, \* the local masterErr of the owner thread's Close()
    mon,          \* the health goroutines started so far, each one's position
    pcC,          \* position of the owner thread inside Connect() / Close()
    nCalls,       \* Connect() and Close() calls made so far
    closed,       \* Close() has returned and Connect() was not called since
    panicked,     \* the process died of a runtime panic
    trace,        \* events of the latest step, when it was a step of Connect,
                  \* Close, checkHealth or an accessor; empty otherwise
    \* one Connection.Connect(ctx) call (pgx and GORM share the loop)
    ccfg,         \* its Config: valid (Validate() == nil), maxRetries,
                  \* retryZero (RetryInterval == 0)
    cpc,          \* position: "start", "attempt", "wait", "done"
    ci,           \* the loop variable i
    cattempts,    \* connectWithTimeout calls made
    cerr,         \* err: 0 is nil, k the error of the k-th attempt
    cpool,        \* c.pool: 0 is nil, k the pool opened by the k-th attempt
    cret,         \* what Connect returned
    clast,        \* how the latest connectWithTimeout call went
    cres,         \* what the latest connectWithTimeout call opened, pinged
                  \* and closed, and whether it returned an error
    ctxDone,      \* the caller's context is cancelled
    \* one SentinelConnection / ClusterConnection
    rcfg,         \* kind, valid (Validate() == nil), useSlave
    rmaster,      \* c.masterClient: set (non-nil), closes (Close calls on it)
    rslave,       \* c.slaveClient
    rpc,          \* position of the owner thread inside Connect() / Close(),
                  \* and the masterErr of its latest Close()
    rcalls,       \* Connect() and Close() calls made so far
    rtrace,       \* events of the latest step of Connect(), Close() or an
                  \* accessor
    \* one RabbitMQ Connection
    aup,          \* environment: the broker is reachable
    ac,           \* its fields: valid (Validate() == nil), maxRetries,
                  \* isConnected,
                  \* connClosed, connError ("nil": never assigned, "nilptr":
                  \* a nil *amqp.Error, "set": an *amqp.Error), conn (0 is nil,
                  \* otherwise an index into aconns), channel (c.channel is
                  \* not nil), closeChClosed
    acon,         \* the running Connect(ctx) or Close() call, which holds
                  \* c.mu: by (0: none runs, -1: the owner's, i: the Connect
                  \* of handleReconnection goroutine i), pc ("dial",
                  \* "channel" inside Connect, "closeChannel", "closeConn"
                  \* inside Close), and Connect's locals i, conn (0 is nil),
                  \* err (is not nil)
    aconns,       \* the amqp connections dialled so far: "alive", "lost"
                  \* (the broker went away) or "closed" (conn.Close())
    ah,           \* the handleReconnection goroutines, each one's position
                  \* ("top": on its way to the select, "select": blocked in
                  \* it, "got", "connect", "connecting": inside its Connect
                  \* call, "sleep", "exited")
    am,           \* the close-monitor goroutines: position, watched conn,
                  \* late (the connection was gone when NotifyClose was
                  \* called on it)
    acalls,       \* Connect() and Close() calls made by the owner so far
    aclosed,      \* the owner's latest call was Close() and it has returned
    apanic,       \* the process died of a runtime panic
    \* one RabbitMQ Consumer or BatchConsumer
    bcfg,         \* kind ("consumer": NewConsumer with a processor, "batch":
                  \* NewBatchConsumer, processor nil), batchSize
    bs,           \* consuming, stopClosed (stopCh), stopping (a Stop() call
                  \* waits on doneCh), pc of the consume goroutine, ret (what
                  \* the latest Start()/Stop() returned), loops (consume
                  \* goroutines started and not returned), gen (how often
                  \* Stop() made new stopCh/doneCh), chanClosed (the
                  \* deliveries channel of the subscription is closed),
                  \* sawClosed (the delivery loop has read "!ok" from it)
    bup,          \* environment: conn.IsConnected() and the channel works
    bq,           \* deliveries waiting in the deliveries channel
    bhandled,     \* deliveries processed so far: acked, nacked
    bbatch,       \* batchCh: 0 is empty, otherwise the size of the batch in it
    bget,         \* what the latest GetBatch(ctx) returned
    bctx,         \* the context given to GetBatch is done
    bpanic,       \* the process died calling Process on the nil processor
    \* one Kafka partition consumer (pconsumer)
    krecs,        \* pc.recs: the batches buffered in the channel
    kp,           \* the consume goroutine: pc, cur (the batch it works on),
                  \* idx (the record of cur it processes next)
    klog,         \* the Process and CommitRecords calls made so far
    kquit,        \* pc.quit is closed
    ksent,        \* batches poll() has handed to the consumer so far
    kpanic,       \* the process died of a runtime panic
    \* the dial loop of one RabbitMQ Connection.Connect(ctx) call
    dl,           \* valid (Validate() == nil), maxRetries, pc, i (the loop
                  \* variable), dials (the result of each amqp.Dial so
                  \* far), conn / err (the locals: 0 is nil, k the
                  \* connection of the k-th dial), stored (c.conn),
                  \* closed (connections closed), expired (connectCtx is
                  \* done), ret (what Connect returned), spawned (the two
                  \* goroutines were started), panic (Connect panicked)
    \* one splitConsume (the partition consumers of one Kafka client)
    rb,           \* consumers (s.consumers: partition -> index into pcs,
                  \* 0 when absent), pcs (the pconsumers created: part,
                  \* quit closed, done closed, recs buffered, late: it was
                  \* sent records after its quit was closed), owned (the
                  \* partitions the group has assigned to the client),
                  \* waiting (the pconsumers a running lost() waits for),
                  \* inLost, pending (partitions of the fetches poll() still
                  \* has to hand out), inPoll (PollRecords returned and
                  \* AllowRebalance was not called yet), polls, panic,
                  \* cause (of the panic: "nil consumer", "fetch error")
    kc            \* one Kafka Connection: valid (Validate() == nil),
                  \* topics (config.Topics), services (the topics with a
                  \* registered service), todo (the topics the loop of
                  \* Connect has not visited), clients (c.clients: topic
                  \* -> index into made, 0 when absent), made (the
                  \* kgo.Clients created: topic, closes), pc, ret

mgrVars == <<cfg, up, masterConn, slaveConn, role, hs, tickers, healthTicker,
             stopClosed, mu, rd, closeMasterErr, mon, pcC, nCalls, closed, panicked,
             trace>>
connVars == <<ccfg, cpc, ci, cattempts, cerr, cpool, cret, clast, cres,
              ctxDone>>
redisVars == <<rcfg, rmaster, rslave, rpc, rcalls, rtrace>>
amqpVars == <<aup, ac, acon, aconns, ah, am, acalls, aclosed, apanic>>
consVars == <<bcfg, bs, bup, bq, bhandled, bbatch, bget, bctx, bpanic>>
kafkaVars == <<krecs, kp, klog, kquit, ksent, kpanic>>
dialVars == <<dl>>
rebVars == <<rb>>
kconnVars == <<kc>>
vars == <<mgrVars, connVars, redisVars, amqpVars, consVars, kafkaVars,
          dialVars, rebVars, kconnVars>>

\* each component leaves the others alone
MgrFrame ==
    UNCHANGED <<connVars, redisVars, amqpVars, consVars, kafkaVars, dialVars,
               rebVars, kconnVars>>
ConnFrame ==
    UNCHANGED <<mgrVars, redisVars, amqpVars, consVars, kafkaVars, dialVars,
               rebVars, kconnVars>>
RedisFrame ==
    UNCHANGED <<mgrVars, connVars, amqpVars, consVars, kafkaVars, dialVars,
               rebVars, kconnVars>>
AmqpFrame ==
    UNCHANGED <<mgrVars, connVars, redisVars, consVars, kafkaVars, dialVars,
               rebVars, kconnVars>>
ConsFrame ==
    UNCHANGED <<mgrVars, connVars, redisVars, amqpVars, kafkaVars, dialVars,
               rebVars, kconnVars>>
KafkaFrame ==
    UNCHANGED <<mgrVars, connVars, redisVars, amqpVars, consVars, dialVars,
               rebVars, kconnVars>>
DialFrame ==
    UNCHANGED <<mgrVars, connVars, redisVars, amqpVars, consVars, kafkaVars,
               rebVars, kconnVars>>
RebFrame ==
    UNCHANGED <<mgrVars, connVars, redisVars, amqpVars, consVars, kafkaVars,
               dialVars, kconnVars>>
KconnFrame ==
    UNCHANGED <<mgrVars, connVars, redisVars, amqpVars, consVars, kafkaVars,
               dialVars, rebVars>>

Sides == {"master", "slave"}
Roles == {"master", "slave"}
\* a *Config of the manager's configuration: nil, rejected by Validate(),
\* accepted with MaxRetries >= 0 ("ok"), accepted with MaxRetries < 0
CfgStates == {"nil", "invalid", "ok", "negRetries"}

Ev(e, side, h, v) == [e |-> e, side |-> side, h |-> h, v |-> v]

(* --------------------------- configuration ---------------------------- *)
\* Config.Validate() == nil (MaxRetries is not looked at)
ConfigValidate(c) == c \in {"ok", "negRetries"}

\* MasterSlaveValidate without the checks of the slave configuration
MasterSlaveValidateNoSlave(c) ==
    IF c.master = "nil" THEN FALSE
    ELSE ConfigValidate(c.master)

\* MasterSlaveConfig.Validate() == nil
MasterSlaveValidate(c) ==
    IF c.master = "nil" THEN FALSE
    ELSE IF ~ConfigValidate(c.master) THEN FALSE
    ELSE IF c.useSlave
         THEN IF c.slave = "nil" THEN FALSE
              ELSE ConfigValidate(c.slave)
         ELSE TRUE

(* ------------------------------ handles ------------------------------- *)
\* NewConnection(cfg): a handle that holds its config and no connection
NewConnection(side) == [side |-> side, st |-> "new", closes |-> 0]

\* Connection.Ping(ctx) == nil: the handle has a sql.DB, it was not closed,
\* the endpoint answers, and ctx is not done before the answer (ctxLive)
ConnPing(store, h, ctxLive) ==
    /\ store[h].st = "ok"
    /\ store[h].closes = 0
    /\ up[store[h].side]
    /\ ctxLive

\* Connection.IsHealthy(ctx)
ConnIsHealthy(store, h, ctxLive) == ConnPing(store, h, ctxLive)

\* Connection.Close(): one more invocation on handle h
ConnClose(store, h) == [store EXCEPT ![h].closes = @ + 1]

\* Connection.Stats(): the zero value while c.sqlDB is nil, which it is
\* until a Connect of the handle has succeeded
ConnStats(store, h) == IF store[h].st = "ok" THEN "stats" ELSE "zero"

(* ------------------- MasterSlaveConnection: accessors ------------------ *)
\* MasterSlaveConnection.IsMaster() / IsSlave()
IsMaster == role = "master"
IsSlave == role = "slave"

\* MasterSlaveConnection.HasSlaveConnected()
HasSlaveConnected == slaveConn # 0

(* --------------- MasterSlaveConnection: the failover code -------------- *)
\* checkHealth() runs as a sequence of steps.  A step starts where a call
\* that blocks returns (the Lock, a ping, a connect attempt, a Close of a
\* handle) and runs up to the start of the next such call; the two reads of
\* c.masterConn in "c.masterConn != nil && c.masterConn.<call>" are separate
\* steps, because Connect() assigns nil to the field without the lock.  The
\* owner's Connect() takes no lock, so its steps fall between these.
\*
\* The fields a step works on, as a record: m/sl the two slots, tr the
\* events of the step so far, and the goroutine's position and locals: pc,
\* i (loop variable of the running reconnect), h (the handle being pinged,
\* or conn, the handle a reconnect has connected), mh/sh (masterHealthy,
\* slaveHealthy), panic (the step ended in a runtime panic)
MgrState(k) ==
    [m |-> masterConn, sl |-> slaveConn, role |-> role, hs |-> hs,
     tr |-> <<>>, pc |-> mon[k].pc, i |-> mon[k].i, h |-> mon[k].h,
     mh |-> mon[k].mh, sh |-> mon[k].sh, panic |-> FALSE]

Log(s, e, side, h, v) == [s EXCEPT !.tr = Append(@, Ev(e, side, h, v))]

\* a method call on a nil *Connection: nil pointer dereference
NilPanic(s, side) ==
    [Log(s, "panic", side, 0, "nil pointer dereference") EXCEPT !.panic = TRUE]

\* checkHealth() returns: the deferred Unlock and cancel; the goroutine is
\* back at the top of its for loop (its locals are gone)
Return(s) ==
    [s EXCEPT !.pc = "top", !.i = 0, !.h = 0, !.mh = FALSE, !.sh = FALSE]

\* the loop condition of the two reconnect loops: i < FailoverRetries
ReconnectLoopContinues(i) == i < cfg.failoverRetries

\* the loop of attemptMasterReconnect when its condition fails: the
\* "Failed to reconnect" log line and the return
MasterExhausted(s) == Log(s, "exhausted", "master", 0, "")

\* the loop of attemptSlaveReconnect when its condition fails
SlaveExhausted(s) == Log(s, "exhausted", "slave", 0, "")

\* attemptSlaveReconnect(ctx) is called: the loop condition, and either the
\* first conn.Connect(ctx) starts or the function returns, and checkHealth
\* with it
StartSlaveReconnect(s) ==
    IF ReconnectLoopContinues(0)
    THEN [s EXCEPT !.pc = "sRec", !.i = 0, !.h = 0, !.mh = FALSE, !.sh = FALSE]
    ELSE Return(SlaveExhausted(s))

\* the last branch of checkHealth after attemptMasterReconnect returned:
\* "if c.slaveConn != nil { c.attemptSlaveReconnect(ctx) }"; installed: the
\* reconnect stored a new handle
AfterMaster(s, installed) ==
    IF s.sl # 0 THEN StartSlaveReconnect(s) ELSE Return(s)

\* attemptMasterReconnect(ctx) is called
StartMasterReconnect(s) ==
    IF ReconnectLoopContinues(0)
    THEN [s EXCEPT !.pc = "mRec", !.i = 0, !.h = 0, !.mh = FALSE, !.sh = FALSE]
    ELSE AfterMaster(MasterExhausted(s), FALSE)

\* Decide without its first branch (the slave is never promoted)
DecideNoPromotion(s) ==
    IF s.mh /\ ~s.sh /\ s.sl # 0 THEN StartSlaveReconnect(s)
    ELSE IF ~s.mh /\ ~s.sh THEN StartMasterReconnect(s)
    ELSE Return(s)

\* the if / else-if chain of checkHealth on the two probe results
Decide(s) ==
    IF ~s.mh /\ s.sh /\ cfg.autoFailover
    THEN Return(Log([s EXCEPT !.role = "slave"], "demote", "master", 0, ""))
    ELSE IF s.mh /\ ~s.sh /\ s.sl # 0 THEN StartSlaveReconnect(s)
    ELSE IF ~s.mh /\ ~s.sh THEN StartMasterReconnect(s)
    ELSE Return(s)

\* "slaveHealthy := c.slaveConn != nil && c.slaveConn.IsHealthy(ctx)" up to
\* the start of the ping (the field is set to nil only under the write
\* lock, which the goroutine holds, so its two reads agree)
ProbeSlave(s) ==
    IF s.sl = 0
    THEN Decide(Log([s EXCEPT !.sh = FALSE], "probe", "slave", 0, "err"))
    ELSE [s EXCEPT !.pc = "pingS", !.h = s.sl]

\* the ping of the slave returned (ok: with nil), and the chain follows
SlavePinged(s, ok) ==
    Decide(Log([s EXCEPT !.sh = ok, !.h = 0], "probe", "slave", s.h,
               IF ok THEN "ok" ELSE "err"))

\* the ping of the master returned, and the probe of the slave follows
MasterPinged(s, ok) ==
    ProbeSlave(Log([s EXCEPT !.mh = ok, !.h = 0], "probe", "master", s.h,
                   IF ok THEN "ok" ELSE "err"))

\* "masterHealthy := c.masterConn != nil && ...": the test of the field
ProbeMaster(s) ==
    IF s.m = 0
    THEN ProbeSlave(Log([s EXCEPT !.mh = FALSE], "probe", "master", 0, "err"))
    ELSE [s EXCEPT !.pc = "m2"]

\* "... && c.masterConn.IsHealthy(ctx)": the field is read again for the
\* receiver and the ping starts
PingMaster(s) ==
    IF s.m = 0 THEN NilPanic(s, "master")
    ELSE [s EXCEPT !.pc = "pingM", !.h = s.m]

\* MasterSet writing a role name that is neither of the two roles
MasterSetBadRole(s) ==
    AfterMaster(Log([s EXCEPT !.m = s.h, !.role = "primary", !.h = 0],
                    "install", "master", s.h, ""), TRUE)

\* MasterSet without the assignment of the role
MasterSetKeepsRole(s) ==
    AfterMaster(Log([s EXCEPT !.m = s.h, !.h = 0],
                    "install", "master", s.h, ""), TRUE)

\* attemptMasterReconnect, success branch: "c.masterConn = conn",
\* "c.role = "master"" and the return to checkHealth
MasterSet(s) ==
    AfterMaster(Log([s EXCEPT !.m = s.h, !.role = "master", !.h = 0],
                    "install", "master", s.h, ""), TRUE)

\* attemptMasterReconnect, success branch: "c.masterConn.Close()", the
\* field read again for the receiver
MasterClose(s) ==
    IF s.m = 0 THEN NilPanic(s, "master")
    ELSE Log([s EXCEPT !.hs = ConnClose(@, s.m), !.pc = "mSet"],
             "close", "master", s.m, "")

\* attemptSlaveReconnect, success branch: "c.slaveConn.Close()", the field
\* read again for the receiver
SlaveClose(s) ==
    IF s.sl = 0 THEN NilPanic(s, "slave")
    ELSE Log([s EXCEPT !.hs = ConnClose(@, s.sl), !.pc = "sSet"],
             "close", "slave", s.sl, "")

\* SlaveSet that also sets the role, as MasterSet does
SlaveSetSetsRole(s) ==
    Return(Log([s EXCEPT !.sl = s.h, !.role = "master"],
               "install", "slave", s.h, ""))

\* attemptSlaveReconnect, success branch: "c.slaveConn = conn" and the
\* return, with which checkHealth returns
SlaveSet(s) ==
    Return(Log([s EXCEPT !.sl = s.h], "install", "slave", s.h, ""))

\* the handle a successful conn.Connect(ctx) of a reconnect leaves in conn
Connected(s, side) ==
    [s EXCEPT !.hs = Append(@, [side |-> side, st |-> "ok", closes |-> 0]),
              !.h = Len(s.hs) + 1]

\* attemptMasterReconnect that closes and drops the old handle when every
\* attempt failed
attemptMasterReconnectDrop(s, ok) ==
    LET s1 == Log(s, "attempt", "master", 0, IF ok THEN "ok" ELSE "err")
    IN  IF ok
        THEN [Connected(s1, "master") EXCEPT
                 !.pc = IF s1.m # 0 THEN "mClose" ELSE "mSet"]
        ELSE LET s2 == Log(s1, "sleep", "master", 0, "")
             IN  IF ReconnectLoopContinues(s.i + 1)
                 THEN [s2 EXCEPT !.i = s.i + 1]
                 ELSE IF s2.m # 0
                 THEN AfterMaster(MasterExhausted(
                          [s2 EXCEPT !.hs = ConnClose(@, s2.m), !.m = 0]), FALSE)
                 ELSE AfterMaster(MasterExhausted(s2), FALSE)

\* MasterSlaveConnection.attemptMasterReconnect(ctx): conn.Connect(ctx) of
\* iteration s.i returned (ok: with nil).  On success the test
\* "c.masterConn != nil", after which the Close of the old handle or the
\* assignment of the new one is next (a step of its own: Connect() writes
\* the field without the lock); otherwise the sleep, and either the next
\* iteration's Connect starts or the loop ends and checkHealth goes on.
attemptMasterReconnect(s, ok) ==
    LET s1 == Log(s, "attempt", "master", 0, IF ok THEN "ok" ELSE "err")
    IN  IF ok
        THEN [Connected(s1, "master") EXCEPT
                 !.pc = IF s1.m # 0 THEN "mClose" ELSE "mSet"]
        ELSE LET s2 == Log(s1, "sleep", "master", 0, "")
             IN  IF ReconnectLoopContinues(s.i + 1)
                 THEN [s2 EXCEPT !.i = s.i + 1]
                 ELSE AfterMaster(MasterExhausted(s2), FALSE)

\* MasterSlaveConnection.attemptSlaveReconnect(ctx): conn.Connect(ctx) of
\* iteration s.i returned.  On success the test "c.slaveConn != nil",
\* after which the Close of the old handle or the assignment of the new one
\* is next (steps of their own: Connect() writes the field without the
\* lock); otherwise the sleep, and the next iteration or the return.
attemptSlaveReconnect(s, ok) ==
    LET s1 == Log(s, "attempt", "slave", 0, IF ok THEN "ok" ELSE "err")
    IN  IF ok
        THEN [Connected(s1, "slave") EXCEPT
                 !.pc = IF s1.sl # 0 THEN "sClose" ELSE "sSet"]
        ELSE LET s2 == Log(s1, "sleep", "slave", 0, "")
             IN  IF ReconnectLoopContinues(s.i + 1)
                 THEN [s2 EXCEPT !.i = s.i + 1]
                 ELSE Return(SlaveExhausted(s2))

(* ----------------- MasterSlaveConnection: Connect / Close -------------- *)
\* the handle the owner thread's Connect() is currently connecting: the
\* receiver of the c.masterConn.Connect(ctx) / c.slaveConn.Connect(ctx) call
Connecting == CHOOSE h \in 1..Len(hs) : hs[h].st = "new"

\* Connection.Connect(ctx) of a handle whose Config has MaxRetries < 0: the
\* retry loop makes no attempt, db and err stay nil, and db.DB() is called
\* on the nil *gorm.DB
ConnectPanics(side) ==
    (IF side = "master" THEN cfg.master ELSE cfg.slave) = "negRetries"

\* a health goroutine at the top of its for loop, before it enters the
\* select.  tk: the ticker whose channel its select waits on; the other
\* fields are the locals of checkHealth: live (the probe context is not
\* done), mh / sh, i, h (see MgrState)
NewMon ==
    [pc |-> "top", tk |-> 0, live |-> FALSE, mh |-> FALSE, sh |-> FALSE,
     i |-> 0, h |-> 0]

\* MasterSlaveConnection.startHealthCheck(): time.NewTicker(interval), which
\* panics for an interval <= 0, the assignment to c.healthTicker, and the
\* go statement
StartHealthCheck ==
    IF cfg.intervalOk
    THEN /\ tickers' = Append(tickers, [running |-> TRUE, c |-> FALSE])
         /\ healthTicker' = Len(tickers) + 1
         /\ mon' = Append(mon, NewMon)
         /\ panicked' = panicked
    ELSE /\ panicked' = TRUE
         /\ UNCHANGED <<tickers, healthTicker, mon>>

\* what Connect() ends with: "return nil", or the panic of NewTicker
ConnectEnd(started) ==
    IF started /\ ~cfg.intervalOk
    THEN Ev("panic", "-", 0, "non-positive interval for NewTicker")
    ELSE Ev("return", "-", 0, "nil")

\* the end of Connect() without the test of HealthCheckEnabled
ConnectFinishAlways(e1) ==
    /\ StartHealthCheck
    /\ pcC' = "idle"
    /\ trace' = <<e1, ConnectEnd(TRUE)>>

\* the end of Connect(): "if c.config.HealthCheckEnabled" and "return nil";
\* e1 is the event of the connect that came before
ConnectFinish(e1) ==
    /\ IF cfg.healthCheck
       THEN StartHealthCheck
       ELSE UNCHANGED <<tickers, healthTicker, mon, panicked>>
    /\ pcC' = "idle"
    /\ trace' = <<e1, ConnectEnd(cfg.healthCheck)>>

\* Connect(): validation, c.masterConn = NewConnection(...), and the start
\* of c.masterConn.Connect(ctx)
ConnectBegin ==
    /\ MgrFrame
    /\ ~panicked /\ pcC = "idle" /\ nCalls < MaxCalls
    /\ Len(mon) < MaxMonitors
    /\ nCalls' = nCalls + 1
    /\ closed' = FALSE
    /\ IF ~MasterSlaveValidate(cfg)
       THEN /\ trace' = <<Ev("Connect", "-", 0, ""),
                          Ev("return", "-", 0, "invalid master-slave config")>>
            /\ UNCHANGED <<masterConn, hs, pcC>>
       ELSE /\ Len(hs) < MaxHandles
            /\ hs' = Append(hs, NewConnection("master"))
            /\ masterConn' = Len(hs) + 1
            /\ pcC' = "master"
            /\ trace' = <<Ev("Connect", "-", 0, ""),
                          Ev("new", "master", Len(hs) + 1, "")>>
    /\ UNCHANGED <<cfg, up, slaveConn, role, tickers, healthTicker, stopClosed,
                   mu, mon, panicked, rd, closeMasterErr>>

\* Connect(): c.masterConn.Connect(ctx) returns (ok: it returned nil, which
\* takes a reachable endpoint) or panics; then either the error return, or
\* c.slaveConn = NewConnection(...) and the start of its Connect, or the
\* end of Connect()
ConnectMaster(ok) ==
    /\ MgrFrame
    /\ ~panicked /\ pcC = "master"
    /\ ok => up["master"]
    /\ LET h == Connecting
           hs1 == [hs EXCEPT ![h].st = IF ok THEN "ok" ELSE "failed"]
           e1 == Ev("connect", "master", h, IF ok THEN "ok" ELSE "err")
       IN  IF ConnectPanics("master")
           THEN /\ panicked' = TRUE
                /\ trace' = <<Ev("panic", "master", h, "nil pointer dereference")>>
                /\ UNCHANGED <<hs, slaveConn, pcC, tickers, healthTicker, mon>>
           ELSE IF ~ok
           THEN /\ hs' = hs1
                /\ pcC' = "idle"
                /\ trace' = <<e1, Ev("return", "-", 0, "failed to connect to master")>>
                /\ UNCHANGED <<slaveConn, tickers, healthTicker, mon, panicked>>
           ELSE IF cfg.useSlave
           THEN /\ Len(hs) < MaxHandles
                /\ hs' = Append(hs1, NewConnection("slave"))
                /\ slaveConn' = Len(hs) + 1
                /\ pcC' = "slave"
                /\ trace' = <<e1, Ev("new", "slave", Len(hs) + 1, "")>>
                /\ UNCHANGED <<tickers, healthTicker, mon, panicked>>
           ELSE /\ hs' = hs1
                /\ ConnectFinish(e1)
                /\ UNCHANGED slaveConn
    /\ UNCHANGED <<cfg, up, masterConn, role, stopClosed, mu, nCalls, closed,
                   rd, closeMasterErr>>

\* Connect(): c.slaveConn.Connect(ctx) returns or panics; then either the
\* end of Connect(), or "c.masterConn.Close()" of the error path: the field
\* is read and the Close of that handle starts
ConnectSlave(ok) ==
    /\ MgrFrame
    /\ ~panicked /\ pcC = "slave"
    /\ ok => up["slave"]
    /\ LET h == Connecting
           hs1 == [hs EXCEPT ![h].st = IF ok THEN "ok" ELSE "failed"]
           e1 == Ev("connect", "slave", h, IF ok THEN "ok" ELSE "err")
       IN  IF ConnectPanics("slave")
           THEN /\ panicked' = TRUE
                /\ trace' = <<Ev("panic", "slave", h, "nil pointer dereference")>>
                /\ UNCHANGED <<hs, pcC, tickers, healthTicker, mon>>
           ELSE IF ok
           THEN /\ hs' = hs1
                /\ ConnectFinish(e1)
           ELSE IF masterConn = 0
           THEN \* c.masterConn.Close() on a nil *Connection
                /\ hs' = hs1
                /\ panicked' = TRUE
                /\ pcC' = "idle"
                /\ trace' = <<e1, Ev("panic", "master", 0, "nil pointer dereference")>>
                /\ UNCHANGED <<tickers, healthTicker, mon>>
           ELSE /\ hs' = ConnClose(hs1, masterConn)
                /\ pcC' = "cleanup"
                /\ trace' = <<e1, Ev("close", "master", masterConn, "")>>
                /\ UNCHANGED <<tickers, healthTicker, mon, panicked>>
    /\ UNCHANGED <<cfg, up, masterConn, slaveConn, role, stopClosed, mu,
                   nCalls, closed, rd, closeMasterErr>>

\* Connect(), error path of the slave: c.masterConn.Close() has returned;
\* "c.masterConn = nil" and the error return
ConnectCleanup ==
    /\ MgrFrame
    /\ ~panicked /\ pcC = "cleanup"
    /\ masterConn' = 0
    /\ pcC' = "idle"
    /\ trace' = <<Ev("clear", "master", masterConn, ""),
                  Ev("return", "-", 0, "failed to connect to slave")>>
    /\ UNCHANGED <<cfg, up, slaveConn, role, hs, tickers, healthTicker,
                   stopClosed, mu, mon, nCalls, closed, panicked, rd,
                   closeMasterErr>>

\* the value Close() returns for the two close errors
CloseResult(mErr, sErr) ==
    IF mErr THEN "error closing master connection"
    ELSE IF sErr THEN "error closing slave connection"
    ELSE "nil"

\* Connection.Close() returns an error: only a connected handle has a
\* sql.DB to close, and closing it fails when the driver says so (fails)
CloseFails(h, fails) == h # 0 /\ hs[h].st = "ok" /\ fails

\* how a Close() call is logged: "again" when Close() already returned and
\* Connect() was not called since, "first" otherwise
CloseCallKind == IF closed THEN "again" ELSE "first"

\* the owner thread holds c.mu for writing
OwnerLock == 0 - 1

\* Close() returns: the deferred Unlock
CloseReturn(evs, mErr, sErr) ==
    /\ mu' = 0
    /\ pcC' = "idle"
    /\ closed' = TRUE
    /\ closeMasterErr' = FALSE
    /\ trace' = evs \o <<Ev("return", "-", 0, CloseResult(mErr, sErr))>>

\* Close(), "if c.slaveConn != nil": the Close of the slave handle starts,
\* or Close() returns.  mErr: closeMasterErr != nil
CloseSlaveStart(evs, mErr) ==
    IF slaveConn # 0
    THEN /\ pcC' = "closeS"
         /\ closeMasterErr' = mErr
         /\ trace' = evs \o <<Ev("close", "slave", slaveConn, "")>>
         /\ UNCHANGED <<mu, closed>>
    ELSE CloseReturn(evs, mErr, FALSE)

\* MasterSlaveConnection.Close(): c.mu.Lock(), the ticker stopped and
\* stopChan closed, and the Close of the master handle starts
CloseBegin ==
    /\ MgrFrame
    /\ ~panicked /\ pcC = "idle" /\ nCalls < MaxCalls
    /\ mu = 0 /\ rd.pc = "idle"
    /\ nCalls' = nCalls + 1
    /\ IF healthTicker # 0 /\ stopClosed
       THEN \* close(c.stopChan) on a closed channel
            /\ panicked' = TRUE
            /\ tickers' = [tickers EXCEPT ![healthTicker].running = FALSE]
            /\ trace' = <<Ev("Close", "-", 0, CloseCallKind),
                          Ev("tickerStop", "-", 0, ""),
                          Ev("panic", "-", 0, "close of closed channel")>>
            /\ UNCHANGED <<hs, stopClosed, closed, mu, pcC, closeMasterErr>>
       ELSE LET stop == healthTicker # 0
                evs == <<Ev("Close", "-", 0, CloseCallKind)>>
                     \o (IF stop THEN <<Ev("tickerStop", "-", 0, ""),
                                        Ev("stopSignal", "-", 0, "")>> ELSE <<>>)
            IN  /\ tickers' = IF stop
                              THEN [tickers EXCEPT ![healthTicker].running = FALSE]
                              ELSE tickers
                /\ stopClosed' = (stopClosed \/ stop)
                /\ panicked' = panicked
                /\ IF masterConn # 0
                   THEN /\ hs' = ConnClose(hs, masterConn)
                        /\ mu' = OwnerLock
                        /\ pcC' = "closeM"
                        /\ trace' = evs \o <<Ev("close", "master", masterConn, "")>>
                        /\ UNCHANGED <<closed, closeMasterErr>>
                   ELSE IF slaveConn # 0
                   THEN /\ hs' = ConnClose(hs, slaveConn)
                        /\ mu' = OwnerLock
                        /\ pcC' = "closeS"
                        /\ trace' = evs \o <<Ev("close", "slave", slaveConn, "")>>
                        /\ UNCHANGED <<closed, closeMasterErr>>
                   ELSE /\ hs' = hs
                        /\ CloseReturn(evs, FALSE, FALSE)
    /\ UNCHANGED <<cfg, up, masterConn, slaveConn, role, healthTicker, mon, rd>>

\* Close(): c.masterConn.Close() returned (mFails: the driver reported an
\* error); "c.masterConn = nil", and the slave handle follows
CloseMaster(mFails) ==
    /\ MgrFrame
    /\ ~panicked /\ pcC = "closeM"
    /\ masterConn' = 0
    /\ LET mErr == CloseFails(masterConn, mFails)
           evs == <<Ev("closed", "master", masterConn,
                       IF mErr THEN "err" ELSE "ok")>>
       IN  /\ hs' = IF slaveConn # 0 THEN ConnClose(hs, slaveConn) ELSE hs
           /\ CloseSlaveStart(evs, mErr)
    /\ UNCHANGED <<cfg, up, slaveConn, role, tickers, healthTicker, stopClosed,
                   mon, nCalls, panicked, rd>>

\* Close(): c.slaveConn.Close() returned; "c.slaveConn = nil" and the
\* return of the first error
CloseSlave(sFails) ==
    /\ MgrFrame
    /\ ~panicked /\ pcC = "closeS"
    /\ slaveConn' = 0
    /\ LET sErr == CloseFails(slaveConn, sFails)
       IN  CloseReturn(<<Ev("closed", "slave", slaveConn,
                            IF sErr THEN "err" ELSE "ok")>>, closeMasterErr, sErr)
    /\ UNCHANGED <<cfg, up, masterConn, role, hs, tickers, healthTicker,
                   stopClosed, mon, nCalls, panicked, rd>>

(* ------------------------ the health goroutine ------------------------- *)
\* the goroutine enters its select: c.healthTicker is read (without the
\* lock) for the channel of the second case
MonEnter(k) ==
    /\ MgrFrame
    /\ ~panicked /\ mon[k].pc = "top"
    /\ mon' = [mon EXCEPT ![k].pc = "select", ![k].tk = healthTicker]
    /\ trace' = <<>>
    /\ UNCHANGED <<cfg, up, masterConn, slaveConn, role, hs, tickers,
                   healthTicker, stopClosed, mu, pcC, nCalls, closed,
                   panicked, rd, closeMasterErr>>

\* select: case <-c.stopChan: return
MonStop(k) ==
    /\ MgrFrame
    /\ ~panicked /\ mon[k].pc = "select" /\ stopClosed
    /\ mon' = [mon EXCEPT ![k].pc = "exited", ![k].tk = 0]
    /\ trace' = <<>>
    /\ UNCHANGED <<cfg, up, masterConn, slaveConn, role, hs, tickers,
                   healthTicker, stopClosed, mu, pcC, nCalls, closed,
                   panicked, rd, closeMasterErr>>

\* select: case <-c.healthTicker.C, and the first statement of
\* checkHealth(): the goroutine takes the buffered tick, creates the probe
\* context (5 s from now) and goes on to c.mu.Lock()
MonTick(k) ==
    /\ MgrFrame
    /\ ~panicked /\ mon[k].pc = "select" /\ tickers[mon[k].tk].c
    /\ tickers' = [tickers EXCEPT ![mon[k].tk].c = FALSE]
    /\ mon' = [mon EXCEPT ![k].pc = "lock", ![k].tk = 0, ![k].live = TRUE]
    /\ trace' = <<>>
    /\ UNCHANGED <<cfg, up, masterConn, slaveConn, role, hs, healthTicker,
                   stopClosed, mu, pcC, nCalls, closed, panicked, rd,
                   closeMasterErr>>

\* what a step of checkHealth leaves behind: the fields, the goroutine's
\* position and locals, and the lock, released when checkHealth returned.
\* live: the probe context is not done at the end of the step
MonApply(k, r, live) ==
    /\ masterConn' = r.m
    /\ slaveConn' = r.sl
    /\ role' = r.role
    /\ hs' = r.hs
    /\ trace' = r.tr
    /\ panicked' = r.panic
    /\ mu' = IF r.pc = "top" THEN 0 ELSE k
    /\ mon' = [mon EXCEPT ![k] =
                 [pc |-> r.pc, tk |-> 0, live |-> live /\ r.pc # "top",
                  mh |-> r.mh, sh |-> r.sh, i |-> r.i, h |-> r.h]]
    /\ UNCHANGED <<cfg, up, tickers, healthTicker, stopClosed, pcC, nCalls,
                   closed, rd, closeMasterErr>>

\* checkHealth(): c.mu.Lock() returns, and the first read of l.246
MonLock(k) ==
    /\ MgrFrame
    /\ ~panicked /\ mon[k].pc = "lock" /\ mu = 0 /\ rd.pc = "idle"
    /\ MonApply(k, ProbeMaster(Log(MgrState(k), "checkHealth", "-", 0, "")),
                mon[k].live)

\* checkHealth(): the second read of c.masterConn; the ping starts
MonPingMaster(k) ==
    /\ MgrFrame
    /\ ~panicked /\ mon[k].pc = "m2"
    /\ MonApply(k, PingMaster(MgrState(k)), mon[k].live)

\* checkHealth(): the ping of the master returns.  live: the probe context
\* is not done when it does (a context that is done stays done); the ping
\* succeeds when the handle is connected and open, its endpoint reachable
\* and the context live
MonMasterPinged(k, live) ==
    /\ MgrFrame
    /\ ~panicked /\ mon[k].pc = "pingM"
    /\ live => mon[k].live
    /\ MonApply(k, MasterPinged(MgrState(k), ConnIsHealthy(hs, mon[k].h, live)),
                live)

\* checkHealth(): the ping of the slave returns
MonSlavePinged(k, live) ==
    /\ MgrFrame
    /\ ~panicked /\ mon[k].pc = "pingS"
    /\ live => mon[k].live
    /\ MonApply(k, SlavePinged(MgrState(k), ConnIsHealthy(hs, mon[k].h, live)),
                live)

\* a conn.Connect(ctx) of a reconnect returns nil only from a reachable
\* endpoint and with the probe context live
AttemptCanSucceed(side, live) ==
    up[side] /\ live /\ Len(hs) < MaxHandles

\* attemptMasterReconnect: the conn.Connect(ctx) of the running iteration
\* returns (ok: with nil) or panics
MonMasterAttempt(k, ok, live) ==
    /\ MgrFrame
    /\ ~panicked /\ mon[k].pc = "mRec"
    /\ live => mon[k].live
    /\ ok => AttemptCanSucceed("master", live)
    /\ MonApply(k, IF ConnectPanics("master")
                   THEN NilPanic(MgrState(k), "master")
                   ELSE attemptMasterReconnect(MgrState(k), ok), live)

\* attemptMasterReconnect: "c.masterConn.Close()" of the success branch
MonMasterClose(k) ==
    /\ MgrFrame
    /\ ~panicked /\ mon[k].pc = "mClose"
    /\ MonApply(k, MasterClose(MgrState(k)), mon[k].live)

\* attemptMasterReconnect: "c.masterConn = conn" and the role, after that
\* Close has returned or after the test found the slot nil
MonMasterSet(k) ==
    /\ MgrFrame
    /\ ~panicked /\ mon[k].pc = "mSet"
    /\ MonApply(k, MasterSet(MgrState(k)), mon[k].live)

\* attemptSlaveReconnect: the conn.Connect(ctx) of the running iteration
\* returns or panics
MonSlaveAttempt(k, ok, live) ==
    /\ MgrFrame
    /\ ~panicked /\ mon[k].pc = "sRec"
    /\ live => mon[k].live
    /\ ok => AttemptCanSucceed("slave", live)
    /\ MonApply(k, IF ConnectPanics("slave")
                   THEN NilPanic(MgrState(k), "slave")
                   ELSE attemptSlaveReconnect(MgrState(k), ok), live)

\* attemptSlaveReconnect: "c.slaveConn.Close()" of the success branch
MonSlaveClose(k) ==
    /\ MgrFrame
    /\ ~panicked /\ mon[k].pc = "sClose"
    /\ MonApply(k, SlaveClose(MgrState(k)), mon[k].live)

\* attemptSlaveReconnect: "c.slaveConn = conn", after the Close of the old
\* handle has returned or after the test found the slot nil
MonSlaveSet(k) ==
    /\ MgrFrame
    /\ ~panicked /\ mon[k].pc = "sSet"
    /\ MonApply(k, SlaveSet(MgrState(k)), mon[k].live)

(* ---------------------------- environment ------------------------------ *)
\* a running ticker puts a tick into its channel (capacity 1)
TickerFire(t) ==
    /\ MgrFrame
    /\ ~panicked /\ tickers[t].running /\ ~tickers[t].c
    /\ tickers' = [tickers EXCEPT ![t].c = TRUE]
    /\ trace' = <<>>
    /\ UNCHANGED <<cfg, up, masterConn, slaveConn, role, hs, healthTicker,
                   stopClosed, mu, mon, pcC, nCalls, closed, panicked, rd,
                   closeMasterErr>>

\* the endpoint of a side becomes unreachable / reachable again
EndpointFlip(side) ==
    /\ MgrFrame
    /\ ~panicked
    /\ side = "slave" => cfg.useSlave
    /\ up' = [up EXCEPT ![side] = ~@]
    /\ trace' = <<>>
    /\ UNCHANGED <<cfg, masterConn, slaveConn, role, hs, tickers, healthTicker,
                   stopClosed, mu, mon, pcC, nCalls, closed, panicked, rd,
                   closeMasterErr>>

(* ------------------------------ accessors ------------------------------ *)
\* One caller thread uses the accessors.  rd is its position inside
\* IsHealthy(ctx) or Stats(), both of which hold the read lock across
\* their steps: pc "idle" (in neither), "ih2" / "st2" (the test
\* "c.masterConn != nil" passed), "ihM" / "ihS" (a ping of handle h is
\* running); live: ctx is not done
RdIdle == [pc |-> "idle", h |-> 0, live |-> FALSE]

\* a step of the caller thread: its new position and the event of the step
Observe(next, fn, side, h, v) ==
    /\ MgrFrame
    /\ ~panicked
    /\ rd' = next
    /\ trace' = <<Ev(fn, side, h, v)>>
    /\ UNCHANGED <<cfg, up, masterConn, slaveConn, role, hs, tickers,
                   healthTicker, stopClosed, mu, mon, pcC, nCalls,
                   closed, panicked, closeMasterErr>>

\* a method call on the nil *Connection a second read of the field gave
ObservePanic(fn) ==
    /\ MgrFrame
    /\ ~panicked
    /\ panicked' = TRUE
    /\ trace' = <<Ev(fn, "master", 0, "panic")>>
    /\ UNCHANGED <<cfg, up, masterConn, slaveConn, role, hs, tickers,
                   healthTicker, stopClosed, mu, mon, pcC, nCalls,
                   closed, rd, closeMasterErr>>

\* what a caller finds in the DatabaseClient an accessor gave it: the state
\* of the Connection ("new": constructed, not connected; "failed"; "ok"),
\* or, for an empty slot, "typed nil": the nil *Connection of the field
\* converted to the interface type, a value that is not equal to nil and
\* on which a method call dereferences nil
HandleState(h) == IF h = 0 THEN "typed nil" ELSE hs[h].st

\* MasterSlaveConnection.GetMasterClient(): RLock, read, RUnlock
GetMasterClient ==
    /\ mu = 0 /\ rd.pc = "idle"
    /\ Observe(rd, "GetMasterClient", "master", masterConn,
               HandleState(masterConn))

\* MasterSlaveConnection.GetSlaveClient()
GetSlaveClient ==
    /\ mu = 0 /\ rd.pc = "idle"
    /\ Observe(rd, "GetSlaveClient", "slave", slaveConn,
               HandleState(slaveConn))

\* IsHealthy that goes on to the replica only when the role is "slave"
IsHealthyTriesSlaveRoleGated ==
    role = "slave" /\ cfg.autoFailover /\ slaveConn # 0

\* IsHealthy(ctx), l.128: "c.config.AutoFailover && c.slaveConn != nil"
IsHealthyTriesSlave == cfg.autoFailover /\ slaveConn # 0

\* IsHealthy(ctx) after the master part gave false: the ping of the slave
\* starts, or false is returned.  hm: the master handle pinged (0: none)
IsHealthySlavePart(hm, live) ==
    IF IsHealthyTriesSlave
    THEN Observe([pc |-> "ihS", h |-> slaveConn, live |-> live],
                 "IsHealthy", "master", hm, "ping slave")
    ELSE Observe(RdIdle, "IsHealthy", "master", hm, "false")

\* MasterSlaveConnection.IsHealthy(ctx): RLock and the test of l.123
IsHealthyBegin ==
    /\ mu = 0 /\ rd.pc = "idle"
    /\ IF masterConn # 0
       THEN Observe([pc |-> "ih2", h |-> 0, live |-> TRUE],
                    "IsHealthy", "-", 0, "called")
       ELSE IsHealthySlavePart(0, TRUE)

\* IsHealthy(ctx): the second read of c.masterConn; the ping starts
IsHealthyPingMaster ==
    /\ rd.pc = "ih2"
    /\ IF masterConn = 0
       THEN ObservePanic("IsHealthy")
       ELSE Observe([rd EXCEPT !.pc = "ihM", !.h = masterConn],
                    "IsHealthy", "master", masterConn, "ping master")

\* IsHealthy(ctx): the ping of the master returns.  live: ctx is not done
\* when it does
IsHealthyMasterPinged(live) ==
    /\ rd.pc = "ihM"
    /\ live => rd.live
    /\ IF ConnIsHealthy(hs, rd.h, live)
       THEN Observe(RdIdle, "IsHealthy", "master", rd.h, "true")
       ELSE IsHealthySlavePart(rd.h, live)

\* IsHealthy(ctx): the ping of the slave returns
IsHealthySlavePinged(live) ==
    /\ rd.pc = "ihS"
    /\ live => rd.live
    /\ Observe(RdIdle, "IsHealthy", "slave", rd.h,
               IF ConnIsHealthy(hs, rd.h, live) THEN "true" ELSE "false")

\* MasterSlaveConnection.Stats(): RLock and the test "c.masterConn != nil"
StatsBegin ==
    /\ mu = 0 /\ rd.pc = "idle"
    /\ IF masterConn # 0
       THEN Observe([pc |-> "st2", h |-> 0, live |-> FALSE],
                    "Stats", "-", 0, "called")
       ELSE Observe(RdIdle, "Stats", "master", 0, "zero")

\* Stats(): "return c.masterConn.Stats()", the field read again
StatsCall ==
    /\ rd.pc = "st2"
    /\ IF masterConn = 0
       THEN ObservePanic("Stats")
       ELSE Observe(RdIdle, "Stats", "master", masterConn,
                    ConnStats(hs, masterConn))

(* ------------------- Connection.Connect (one handle) ------------------- *)
Outcomes == {"ok", "pool error", "pool ping error", "conn error", "conn ping error"}

NoRet == [kind |-> "none", wraps |-> 0]

\* no connectWithTimeout call was made yet
NoAttempt == [err |-> FALSE, opened |-> {}, pinged |-> {}, closed |-> {}]

\* connectWithTimeout that closes only the direct connection when its ping
\* fails
connectWithTimeoutLeak(outcome) ==
    CASE outcome = "pool error" ->
           [err |-> TRUE, opened |-> {}, pinged |-> {}, closed |-> {}]
      [] outcome = "pool ping error" ->
           [err |-> TRUE, opened |-> {"pool"}, pinged |-> {},
            closed |-> {"pool"}]
      [] outcome = "conn error" ->
           [err |-> TRUE, opened |-> {"pool"}, pinged |-> {"pool"},
            closed |-> {"pool"}]
      [] outcome = "conn ping error" ->
           [err |-> TRUE, opened |-> {"pool", "conn"}, pinged |-> {"pool"},
            closed |-> {"conn"}]
      [] OTHER ->
           [err |-> FALSE, opened |-> {"pool", "conn"},
            pinged |-> {"pool", "conn"}, closed |-> {}]

\* connectWithTimeout(ctx): pgxpool.NewWithConfig, pool.Ping, pgx.Connect,
\* conn.Ping; each failure closes what was opened before it and returns
\* the error (ParseConfig fails like NewWithConfig: nothing is open).
\* opened/pinged/closed: the resources the call opened, pinged with
\* success and closed
connectWithTimeout(outcome) ==
    CASE outcome = "pool error" ->
           [err |-> TRUE, opened |-> {}, pinged |-> {}, closed |-> {}]
      [] outcome = "pool ping error" ->
           [err |-> TRUE, opened |-> {"pool"}, pinged |-> {},
            closed |-> {"pool"}]
      [] outcome = "conn error" ->
           [err |-> TRUE, opened |-> {"pool"}, pinged |-> {"pool"},
            closed |-> {"pool"}]
      [] outcome = "conn ping error" ->
           [err |-> TRUE, opened |-> {"pool", "conn"}, pinged |-> {"pool"},
            closed |-> {"pool", "conn"}]
      [] OTHER ->
           [err |-> FALSE, opened |-> {"pool", "conn"},
            pinged |-> {"pool", "conn"}, closed |-> {}]

\* a select that never takes the ctx.Done() case
SelectCasesNoCtx(done, zero) == {"timer"}

\* the cases the select between attempts can take.  The timer of
\* time.After(RetryInterval * (i+1)) is not ready while its duration runs,
\* so a cancelled context is the only ready case; the goroutine blocked in
\* the select is woken by whichever comes first.  With RetryInterval == 0
\* the timer may be ready together with ctx.Done() and the select takes
\* either.
SelectCases(done, zero) ==
    IF done THEN (IF zero THEN {"ctx", "timer"} ELSE {"ctx"}) ELSE {"timer"}

\* the state of the variables of a Connection nobody calls
ConnIdle ==
    /\ ccfg = [valid |-> TRUE, maxRetries |-> 0, retryZero |-> FALSE]
    /\ cpc = "idle"
    /\ ci = 0
    /\ cattempts = 0
    /\ cerr = 0
    /\ cpool = 0
    /\ cret = NoRet
    /\ clast = "none"
    /\ cres = NoAttempt
    /\ ctxDone = FALSE

\* the condition of "for i := 0; i <= c.config.MaxRetries; i++"
LoopContinues(i, maxRetries) == i <= maxRetries

\* Connect(): what follows the loop: "if err != nil" and the assignments
ConnAfterLoop(err, pool) ==
    /\ cpc' = "done"
    /\ IF err # 0
       THEN /\ cret' = [kind |-> "failed to connect", wraps |-> err]
            /\ cpool' = cpool
       ELSE /\ cret' = [kind |-> "nil", wraps |-> 0]
            /\ cpool' = pool

\* Connect(): Validate, then the first evaluation of the loop condition
ConnStart ==
    /\ ConnFrame
    /\ cpc = "start"
    /\ IF ~ccfg.valid
       THEN /\ cpc' = "done"
            /\ cret' = [kind |-> "invalid config", wraps |-> 0]
            /\ cpool' = cpool
       ELSE IF LoopContinues(0, ccfg.maxRetries)
       THEN /\ cpc' = "attempt"
            /\ UNCHANGED <<cret, cpool>>
       ELSE ConnAfterLoop(0, 0)
    /\ UNCHANGED <<ccfg, ci, cattempts, cerr, clast, cres, ctxDone>>

\* one iteration up to the select: connectWithTimeout(ctx) ends with outcome
\* (it cannot succeed on a cancelled context), then break, wait or loop exit
ConnAttempt(outcome) ==
    /\ ConnFrame
    /\ cpc = "attempt"
    /\ outcome = "ok" => ~ctxDone
    /\ cattempts' = cattempts + 1
    /\ clast' = outcome
    /\ cres' = connectWithTimeout(outcome)
    /\ IF ~connectWithTimeout(outcome).err
       THEN /\ cerr' = 0
            /\ ci' = ci
            /\ ConnAfterLoop(0, cattempts + 1)
       ELSE /\ cerr' = cattempts + 1
            /\ IF ci < ccfg.maxRetries
               THEN /\ cpc' = "wait"
                    /\ ci' = ci
                    /\ UNCHANGED <<cret, cpool>>
               ELSE /\ ci' = ci + 1
                    /\ IF LoopContinues(ci + 1, ccfg.maxRetries)
                       THEN /\ cpc' = "attempt"
                            /\ UNCHANGED <<cret, cpool>>
                       ELSE ConnAfterLoop(cattempts + 1, 0)
    /\ UNCHANGED <<ccfg, ctxDone>>

\* select: case <-time.After(RetryInterval * (i+1)): continue
ConnWaitElapsed ==
    /\ ConnFrame
    /\ cpc = "wait"
    /\ "timer" \in SelectCases(ctxDone, ccfg.retryZero)
    /\ ci' = ci + 1
    /\ IF LoopContinues(ci + 1, ccfg.maxRetries)
       THEN /\ cpc' = "attempt"
            /\ UNCHANGED <<cret, cpool>>
       ELSE ConnAfterLoop(cerr, 0)
    /\ UNCHANGED <<ccfg, cattempts, cerr, clast, cres, ctxDone>>

\* select: case <-ctx.Done(): return ctx.Err()
ConnWaitCancelled ==
    /\ ConnFrame
    /\ cpc = "wait"
    /\ "ctx" \in SelectCases(ctxDone, ccfg.retryZero)
    /\ cpc' = "done"
    /\ cret' = [kind |-> "context error", wraps |-> 0]
    /\ UNCHANGED <<ccfg, ci, cattempts, cerr, cpool, clast, cres, ctxDone>>

\* the caller cancels the context while Connect runs
CtxCancel ==
    /\ ConnFrame
    /\ cpc \in {"start", "attempt", "wait"} /\ ~ctxDone
    /\ ctxDone' = TRUE
    /\ UNCHANGED <<ccfg, cpc, ci, cattempts, cerr, cpool, cret, clast, cres>>

\* NewConnection(cfg) with any configuration: Validate() does not look at
\* MaxRetries, so a negative value is accepted like any other
ConnInit ==
    /\ ccfg \in [valid : BOOLEAN, maxRetries : (-1)..MaxRetriesBound,
                retryZero : BOOLEAN]
    /\ cpc = "start"
    /\ ci = 0
    /\ cattempts = 0
    /\ cerr = 0
    /\ cpool = 0
    /\ cret = NoRet
    /\ clast = "none"
    /\ cres = NoAttempt
    /\ ctxDone = FALSE

ConnNext ==
    \/ ConnStart
    \/ \E outcome \in Outcomes : ConnAttempt(outcome)
    \/ ConnWaitElapsed
    \/ ConnWaitCancelled
    \/ CtxCancel

(* --------------- SentinelConnection / ClusterConnection ---------------- *)
NoClient == [set |-> FALSE, closes |-> 0]

\* redis.NewFailoverClient(...) / redis.NewClusterClient(...)
NewClient == [set |-> TRUE, closes |-> 0]

\* the owner thread is in neither Connect() nor Close(); mErr is the
\* masterErr of its latest Close()
RedisNoCall == [pc |-> "idle", mErr |-> FALSE]

RedisIdle ==
    /\ rcfg = [kind |-> "sentinel", valid |-> TRUE, useSlave |-> FALSE]
    /\ rmaster = NoClient
    /\ rslave = NoClient
    /\ rpc = RedisNoCall
    /\ rcalls = 0
    /\ rtrace = <<>>

\* Close() of a redis client: one more invocation.  What it returns is
\* the driver's business (nil or an error, on a client closed before as on
\* any other), so the actions take it as an input
ClientClose(c) == [c EXCEPT !.closes = @ + 1]

\* Connect() or Close() returns v
RedisReturn(op, evs, v) ==
    /\ rpc' = [rpc EXCEPT !.pc = "idle"]
    /\ rtrace' = evs \o <<Ev("return", op, 0, v)>>

\* SentinelConnection.Connect / ClusterConnection.Connect (the same code):
\* Validate, the master client is created and stored, and its Ping starts
RedisConnectBegin ==
    /\ RedisFrame
    /\ rpc.pc = "idle" /\ rcalls < MaxRedisCalls
    /\ rcalls' = rcalls + 1
    /\ IF ~rcfg.valid
       THEN /\ RedisReturn("Connect", <<Ev("Connect", "-", 0, "")>>,
                           "invalid config")
            /\ UNCHANGED rmaster
       ELSE /\ rmaster' = NewClient
            /\ rpc' = [rpc EXCEPT !.pc = "pingM"]
            /\ rtrace' = <<Ev("Connect", "-", 0, ""), Ev("new", "master", 0, "")>>
    /\ UNCHANGED <<rcfg, rslave>>

\* Connect: the Ping of the master client returns (mOk: with nil); the
\* error return, or the slave client is created and stored and its Ping
\* starts, or Connect returns nil
RedisMasterPinged(mOk) ==
    /\ RedisFrame
    /\ rpc.pc = "pingM"
    /\ LET e1 == Ev("ping", "master", 0, IF mOk THEN "ok" ELSE "err")
       IN  IF ~mOk
           THEN /\ RedisReturn("Connect", <<e1>>, "failed to connect to master")
                /\ UNCHANGED rslave
           ELSE IF rcfg.useSlave
           THEN /\ rslave' = NewClient
                /\ rpc' = [rpc EXCEPT !.pc = "pingS"]
                /\ rtrace' = <<e1, Ev("new", "slave", 0, "")>>
           ELSE /\ RedisReturn("Connect", <<e1>>, "nil")
                /\ UNCHANGED rslave
    /\ UNCHANGED <<rcfg, rmaster, rcalls>>

\* Connect: the Ping of the slave client returns (sOk: with nil); on an
\* error c.masterClient.Close() and the error return
RedisSlavePinged(sOk) ==
    /\ RedisFrame
    /\ rpc.pc = "pingS"
    /\ IF sOk
       THEN /\ RedisReturn("Connect", <<Ev("ping", "slave", 0, "ok")>>, "nil")
            /\ UNCHANGED rmaster
       ELSE /\ rmaster' = ClientClose(rmaster)
            /\ RedisReturn("Connect", <<Ev("ping", "slave", 0, "err"),
                                        Ev("close", "master", 0, "")>>,
                           "failed to connect to slave")
    /\ UNCHANGED <<rcfg, rslave, rcalls>>

\* Close, "if c.slaveClient != nil": the Close of the slave client starts,
\* or Close returns.  mErr: masterErr != nil
RedisCloseSlaveStart(evs, mErr) ==
    IF rslave.set
    THEN /\ rpc' = [pc |-> "closeS", mErr |-> mErr]
         /\ rtrace' = evs
    ELSE /\ rpc' = [pc |-> "idle", mErr |-> mErr]
         /\ rtrace' = evs \o <<Ev("return", "Close", 0, CloseResult(mErr, FALSE))>>

\* SentinelConnection.Close / ClusterConnection.Close (the same code): the
\* Close of the master client starts, if there is one
RedisCloseBegin ==
    /\ RedisFrame
    /\ rpc.pc = "idle" /\ rcalls < MaxRedisCalls
    /\ rcalls' = rcalls + 1
    /\ IF rmaster.set
       THEN /\ rpc' = [pc |-> "closeM", mErr |-> FALSE]
            /\ rtrace' = <<Ev("Close", "-", 0, "")>>
       ELSE RedisCloseSlaveStart(<<Ev("Close", "-", 0, "")>>, FALSE)
    /\ UNCHANGED <<rcfg, rmaster, rslave>>

\* Close: c.masterClient.Close() returns (mFails: with an error); the
\* slave client follows
RedisCloseMaster(mFails) ==
    /\ RedisFrame
    /\ rpc.pc = "closeM"
    /\ rmaster' = ClientClose(rmaster)
    /\ RedisCloseSlaveStart(
           <<Ev("close", "master", 0, IF mFails THEN "err" ELSE "ok")>>, mFails)
    /\ UNCHANGED <<rcfg, rslave, rcalls>>

\* Close: c.slaveClient.Close() returns (sFails: with an error); the first
\* error is returned
RedisCloseSlave(sFails) ==
    /\ RedisFrame
    /\ rpc.pc = "closeS"
    /\ rslave' = ClientClose(rslave)
    /\ RedisReturn("Close",
                   <<Ev("close", "slave", 0, IF sFails THEN "err" ELSE "ok")>>,
                   CloseResult(rpc.mErr, sFails))
    /\ UNCHANGED <<rcfg, rmaster, rcalls>>

\* what a caller holds when it is given the client of a slot
ClientState(cl) ==
    IF ~cl.set THEN "nil" ELSE IF cl.closes > 0 THEN "closed" ELSE "open"

\* SentinelConnection.GetMasterClient() / ClusterConnection's: return
\* c.masterClient (no lock: it runs between the steps of Connect and Close)
RedisGetMasterClient ==
    /\ RedisFrame
    /\ rtrace' = <<Ev("GetMasterClient", "master", 0, ClientState(rmaster))>>
    /\ UNCHANGED <<rcfg, rmaster, rslave, rpc, rcalls>>

\* SentinelConnection.GetSlaveClient(): return c.slaveClient
RedisGetSlaveClient ==
    /\ RedisFrame
    /\ rtrace' = <<Ev("GetSlaveClient", "slave", 0, ClientState(rslave))>>
    /\ UNCHANGED <<rcfg, rmaster, rslave, rpc, rcalls>>

RedisInit ==
    /\ rcfg \in [kind : {"sentinel", "cluster"}, valid : BOOLEAN, useSlave : BOOLEAN]
    /\ rmaster = NoClient
    /\ rslave = NoClient
    /\ rpc = RedisNoCall
    /\ rcalls = 0
    /\ rtrace = <<>>

RedisNext ==
    \/ RedisConnectBegin
    \/ \E mOk \in BOOLEAN : RedisMasterPinged(mOk)
    \/ \E sOk \in BOOLEAN : RedisSlavePinged(sOk)
    \/ RedisCloseBegin
    \/ \E mFails \in BOOLEAN : RedisCloseMaster(mFails)
    \/ \E sFails \in BOOLEAN : RedisCloseSlave(sFails)
    \/ RedisGetMasterClient
    \/ RedisGetSlaveClient

(* ------------------------- RabbitMQ Connection ------------------------- *)
\* NewConnection(cfg): valid is Validate() == nil, maxRetries is MaxRetries
\* (Validate does not look at it, so a negative value is accepted)
AmqpNew(valid, maxRetries) ==
    [valid |-> valid, maxRetries |-> maxRetries, isConnected |-> FALSE,
     connClosed |-> FALSE, connError |-> "nil", conn |-> 0,
     channel |-> FALSE, closeChClosed |-> FALSE]

\* neither Connect(ctx) nor Close() is running: nobody holds c.mu for one
AmqpNoCall == [by |-> 0, pc |-> "none", i |-> 0, conn |-> 0, err |-> FALSE]

\* c.mu is free (it is held from the start of a Connect or Close call to
\* its return)
AmqpUnlocked == acon.by = 0

\* go c.handleReconnection() and the monitor goroutine of Connect
AmqpSpawn(handlers, monitors, spawn) ==
    IF spawn
    THEN [h |-> Append(handlers, "top"),
          m |-> Append(monitors, [pc |-> "start", watch |-> 0,
                                  late |-> FALSE])]
    ELSE [h |-> handlers, m |-> monitors]

\* Connect(ctx), called by `by` (the owner, or a handleReconnection
\* goroutine: its number), returns or panics: the deferred Unlock; a
\* handler goes on to its sleep after an error and to the top of its loop
\* otherwise.  c: the fields, conns: the connections dialled, spawn: the
\* two goroutines were started
AmqpConnectReturn(by, c, conns, err, spawn, panic) ==
    LET g == AmqpSpawn(IF by > 0
                       THEN [ah EXCEPT ![by] = IF err THEN "sleep" ELSE "top"]
                       ELSE ah, am, spawn)
    IN  /\ ac' = c
        /\ aconns' = conns
        /\ ah' = g.h
        /\ am' = g.m
        /\ apanic' = panic
        /\ acon' = AmqpNoCall

\* Connect(ctx) at the head of its for loop with loop variable i, conn and
\* err being the results of the latest dial (0 / FALSE: nil) and conns the
\* connections dialled so far.  While i <= MaxRetries the select: the
\* timeout return when connectCtx is done (expired), otherwise the next
\* amqp.Dial starts, whatever the dial before returned.  After the loop the
\* error return, or "c.conn = conn" and the start of conn.Channel(), which
\* dereferences nil when no dial was made
AmqpLoop(by, i, conn, err, conns, expired) ==
    IF i <= ac.maxRetries
    THEN IF expired
         THEN AmqpConnectReturn(by, ac, conns, TRUE, FALSE, FALSE)
         ELSE /\ acon' = [by |-> by, pc |-> "dial", i |-> i, conn |-> conn,
                          err |-> err]
              /\ aconns' = conns
              /\ ah' = IF by > 0 THEN [ah EXCEPT ![by] = "connecting"] ELSE ah
              /\ UNCHANGED <<ac, am, apanic>>
    ELSE IF err
    THEN AmqpConnectReturn(by, ac, conns, TRUE, FALSE, FALSE)
    ELSE IF conn = 0
    THEN AmqpConnectReturn(by, [ac EXCEPT !.conn = 0], conns, FALSE, FALSE, TRUE)
    ELSE /\ acon' = [by |-> by, pc |-> "channel", i |-> i, conn |-> conn,
                     err |-> err]
         /\ ac' = [ac EXCEPT !.conn = conn]
         /\ aconns' = conns
         /\ UNCHANGED <<ah, am, apanic>>

\* Connection.Connect(ctx): c.mu.Lock(), Validate, the ConnTimeout context
\* and the entry of the loop
AmqpConnectBegin(by, expired) ==
    /\ AmqpUnlocked
    /\ expired => (ac.valid /\ 0 <= ac.maxRetries)
    /\ IF ~ac.valid
       THEN AmqpConnectReturn(by, ac, aconns, TRUE, FALSE, FALSE)
       ELSE AmqpLoop(by, 0, 0, FALSE, aconns, expired)

\* the owner calls Connect(ctx)
AmqpUserConnect(expired) ==
    /\ AmqpFrame
    /\ ~apanic /\ acalls < MaxAmqpCalls
    /\ acalls' = acalls + 1
    /\ aclosed' = FALSE
    /\ AmqpConnectBegin(0 - 1, expired)
    /\ UNCHANGED aup

\* Connect: amqp.Dial of iteration i returns (ok: a connection and no
\* error, which takes a reachable broker); after a failed dial that is not
\* the last the sleep; i++ and the head of the loop.  A connection dialled
\* before stays open, and nothing refers to it any more
AmqpDialed(ok, expired) ==
    /\ AmqpFrame
    /\ ~apanic /\ acon.pc = "dial"
    /\ ok => (aup /\ Len(aconns) < MaxAmqpConns)
    /\ expired => acon.i + 1 <= ac.maxRetries
    /\ AmqpLoop(acon.by, acon.i + 1,
                IF ok THEN Len(aconns) + 1 ELSE 0, ~ok,
                IF ok THEN Append(aconns, "alive") ELSE aconns, expired)
    /\ UNCHANGED <<aup, acalls, aclosed>>

\* Connect: conn.Channel() returns (ok: a channel and no error, which takes
\* a live connection); on an error c.conn.Close() and the error return,
\* otherwise the flags, the two goroutines and nil
AmqpChannelOpened(ok) ==
    /\ AmqpFrame
    /\ ~apanic /\ acon.pc = "channel"
    /\ ok => aconns[acon.conn] = "alive"
    /\ IF ok
       THEN AmqpConnectReturn(acon.by,
                [ac EXCEPT !.channel = TRUE, !.isConnected = TRUE,
                           !.connClosed = FALSE],
                aconns, FALSE, TRUE, FALSE)
       ELSE AmqpConnectReturn(acon.by, ac,
                [aconns EXCEPT ![acon.conn] =
                    IF @ = "alive" THEN "closed" ELSE @], TRUE, FALSE, FALSE)
    /\ UNCHANGED <<aup, acalls, aclosed>>

\* the handleReconnection goroutines that receive on reconnectCh: those
\* blocked in their select, unless closeCh is closed (the close has woken
\* them for the other case, and a goroutine that reaches the select later
\* finds that case ready).  A non-blocking send on the unbuffered
\* reconnectCh succeeds only when one of them is receiving.
AmqpReceivers(handlers, closeChClosed) ==
    IF closeChClosed THEN {}
    ELSE {j \in 1..Len(handlers) : handlers[j] = "select"}

\* select { case c.reconnectCh <- struct{}{}: default: }: the handler lists
\* the send can leave: one receiver took the signal, or, with no receiver,
\* nothing changed
AmqpSend(handlers, closeChClosed) ==
    IF AmqpReceivers(handlers, closeChClosed) = {}
    THEN {handlers}
    ELSE {[handlers EXCEPT ![j] = "got"] :
             j \in AmqpReceivers(handlers, closeChClosed)}

\* handleReconnection: the goroutine, started by Connect or back at the top
\* of its for loop, reaches the select and blocks in it
AmqpHandlerEnter(i) ==
    /\ AmqpFrame
    /\ ~apanic /\ ah[i] = "top"
    /\ ah' = [ah EXCEPT ![i] = "select"]
    /\ UNCHANGED <<aup, ac, acon, aconns, am, acalls, aclosed, apanic>>

\* handleReconnection, case <-c.reconnectCh: under c.mu.RLock(), return if
\* connClosed; the lock is released before Connect is called
AmqpHandlerCheck(i) ==
    /\ AmqpFrame
    /\ ~apanic /\ ah[i] = "got" /\ AmqpUnlocked
    /\ ah' = [ah EXCEPT ![i] = IF ac.connClosed THEN "exited" ELSE "connect"]
    /\ UNCHANGED <<aup, ac, acon, aconns, am, acalls, aclosed, apanic>>

\* handleReconnection: c.Connect(ctx) with a ConnTimeout context, which
\* takes c.mu.Lock() itself
AmqpHandlerReconnect(i, expired) ==
    /\ AmqpFrame
    /\ ~apanic /\ ah[i] = "connect"
    /\ AmqpConnectBegin(i, expired)
    /\ UNCHANGED <<aup, acalls, aclosed>>

\* handleReconnection after a failed Connect: time.Sleep(RetryTimeout) is
\* over, the non-blocking send on reconnectCh, and back to the top of the
\* loop
AmqpHandlerResend(i) ==
    /\ AmqpFrame
    /\ ~apanic /\ ah[i] = "sleep"
    /\ \E sent \in AmqpSend(ah, ac.closeChClosed) :
          ah' = [sent EXCEPT ![i] = "top"]
    /\ UNCHANGED <<aup, ac, acon, aconns, am, acalls, aclosed, apanic>>

\* handleReconnection, case <-c.closeCh: return
AmqpHandlerStop(i) ==
    /\ AmqpFrame
    /\ ~apanic /\ ah[i] = "select" /\ ac.closeChClosed
    /\ ah' = [ah EXCEPT ![i] = "exited"]
    /\ UNCHANGED <<aup, ac, acon, aconns, am, acalls, aclosed, apanic>>

\* the monitor goroutine starts: c.conn.NotifyClose(...), reading c.conn
\* without the lock; on a nil c.conn the call panics
AmqpMonStart(k) ==
    /\ AmqpFrame
    /\ ~apanic /\ am[k].pc = "start"
    /\ IF ac.conn = 0
       THEN /\ apanic' = TRUE
            /\ am' = am
       ELSE /\ apanic' = apanic
            /\ am' = [am EXCEPT ![k] = [pc |-> "select", watch |-> ac.conn,
                                        late |-> aconns[ac.conn] # "alive"]]
    /\ UNCHANGED <<aup, ac, acon, aconns, ah, acalls, aclosed>>

\* the monitor, case err := <-connCloseChan: the watched connection is
\* gone; isConnected = false and connError = err under the lock.  err is
\* what the library put on the channel: the error of a connection lost
\* while the monitor was registered; nothing (the channel is closed, the
\* receive gives a nil *amqp.Error) for a connection closed by Close(); for
\* a connection lost before NotifyClose was called either of the two (the
\* library closes the channel at once if it has noticed the loss)
AmqpMonNotified(k, err) ==
    /\ AmqpFrame
    /\ ~apanic /\ am[k].pc = "select" /\ aconns[am[k].watch] # "alive"
    /\ AmqpUnlocked
    /\ err \in IF aconns[am[k].watch] # "lost" THEN {"nilptr"}
                ELSE IF am[k].late THEN {"nilptr", "set"} ELSE {"set"}
    /\ ac' = [ac EXCEPT !.isConnected = FALSE, !.connError = err]
    /\ am' = [am EXCEPT ![k].pc = "signal"]
    /\ UNCHANGED <<aup, acon, aconns, ah, acalls, aclosed, apanic>>

\* the monitor's non-blocking send on reconnectCh; the goroutine ends
AmqpMonSignal(k) ==
    /\ AmqpFrame
    /\ ~apanic /\ am[k].pc = "signal"
    /\ ah' \in AmqpSend(ah, ac.closeChClosed)
    /\ am' = [am EXCEPT ![k].pc = "exited"]
    /\ UNCHANGED <<aup, ac, acon, aconns, acalls, aclosed, apanic>>

\* the monitor, case <-c.closeCh: return
AmqpMonStop(k) ==
    /\ AmqpFrame
    /\ ~apanic /\ am[k].pc = "select" /\ ac.closeChClosed
    /\ am' = [am EXCEPT ![k].pc = "exited"]
    /\ UNCHANGED <<aup, ac, acon, aconns, ah, acalls, aclosed, apanic>>

\* Close() from "if c.conn != nil": c.conn.Close() starts (the connection
\* is closed by it); with a nil c.conn the rest of Close():
\* "c.isConnected = false", "return err" and the deferred Unlock.  c: the
\* fields so far
AmqpCloseConn(c) ==
    IF c.conn # 0
    THEN /\ ac' = c
         /\ aconns' = [aconns EXCEPT ![c.conn] =
                           IF @ = "alive" THEN "closed" ELSE @]
         /\ acon' = [AmqpNoCall EXCEPT !.by = 0 - 1, !.pc = "closeConn"]
         /\ aclosed' = FALSE
    ELSE /\ ac' = [c EXCEPT !.isConnected = FALSE]
         /\ aconns' = aconns
         /\ acon' = AmqpNoCall
         /\ aclosed' = TRUE

\* the owner calls Close(): c.mu.Lock(), close(c.closeCh) (a panic the
\* second time), "c.connClosed = true", and c.channel.Close() starts; with
\* a nil c.channel the connection is next
AmqpCloseBegin ==
    /\ AmqpFrame
    /\ ~apanic /\ acalls < MaxAmqpCalls /\ AmqpUnlocked
    /\ acalls' = acalls + 1
    /\ IF ac.closeChClosed
       THEN /\ apanic' = TRUE
            /\ aclosed' = FALSE
            /\ UNCHANGED <<ac, acon, aconns>>
       ELSE /\ apanic' = apanic
            /\ LET c == [ac EXCEPT !.closeChClosed = TRUE, !.connClosed = TRUE]
               IN  IF c.channel
                   THEN /\ ac' = c
                        /\ acon' = [AmqpNoCall EXCEPT !.by = 0 - 1,
                                                      !.pc = "closeChannel"]
                        /\ aclosed' = FALSE
                        /\ aconns' = aconns
                   ELSE AmqpCloseConn(c)
    /\ UNCHANGED <<aup, ah, am>>

\* Close(): c.channel.Close() returns; "c.channel = nil" and the connection
AmqpCloseChannelClosed ==
    /\ AmqpFrame
    /\ ~apanic /\ acon.pc = "closeChannel"
    /\ AmqpCloseConn([ac EXCEPT !.channel = FALSE])
    /\ UNCHANGED <<aup, ah, am, acalls, apanic>>

\* Close(): c.conn.Close() returns; "c.conn = nil" and the rest of Close()
AmqpCloseConnClosed ==
    /\ AmqpFrame
    /\ ~apanic /\ acon.pc = "closeConn"
    /\ AmqpCloseConn([ac EXCEPT !.conn = 0])
    /\ UNCHANGED <<aup, ah, am, acalls, apanic>>

\* the broker goes away (every live connection is lost) or comes back
AmqpBrokerFlip ==
    /\ AmqpFrame
    /\ ~apanic
    /\ aup' = ~aup
    /\ aconns' = IF aup
                 THEN [k \in 1..Len(aconns) |->
                          IF aconns[k] = "alive" THEN "lost" ELSE aconns[k]]
                 ELSE aconns
    /\ UNCHANGED <<ac, acon, ah, am, acalls, aclosed, apanic>>

AmqpInit ==
    /\ aup = TRUE
    /\ ac \in {AmqpNew(valid, m) : valid \in BOOLEAN,
                                   m \in (0 - 1)..MaxAmqpRetries}
    /\ acon = AmqpNoCall
    /\ aconns = <<>>
    /\ ah = <<>>
    /\ am = <<>>
    /\ acalls = 0
    /\ aclosed = FALSE
    /\ apanic = FALSE

\* the state of the variables of a RabbitMQ Connection nobody uses
AmqpIdle ==
    /\ aup = TRUE
    /\ ac = AmqpNew(TRUE, 0)
    /\ acon = AmqpNoCall
    /\ aconns = <<>> /\ ah = <<>> /\ am = <<>>
    /\ acalls = 0 /\ aclosed = FALSE /\ apanic = FALSE

AmqpNext ==
    \/ \E expired \in BOOLEAN : AmqpUserConnect(expired)
    \/ \E ok, expired \in BOOLEAN : AmqpDialed(ok, expired)
    \/ \E ok \in BOOLEAN : AmqpChannelOpened(ok)
    \/ AmqpCloseBegin
    \/ AmqpCloseChannelClosed
    \/ AmqpCloseConnClosed
    \/ \E i \in 1..Len(ah) : AmqpHandlerEnter(i)
    \/ \E i \in 1..Len(ah) : AmqpHandlerCheck(i)
    \/ \E i \in 1..Len(ah) :
         \E expired \in BOOLEAN : AmqpHandlerReconnect(i, expired)
    \/ \E i \in 1..Len(ah) : AmqpHandlerResend(i)
    \/ \E i \in 1..Len(ah) : AmqpHandlerStop(i)
    \/ \E k \in 1..Len(am) : AmqpMonStart(k)
    \/ \E k \in 1..Len(am) :
         \E err \in {"nilptr", "set"} : AmqpMonNotified(k, err)
    \/ \E k \in 1..Len(am) : AmqpMonSignal(k)
    \/ \E k \in 1..Len(am) : AmqpMonStop(k)
    \/ AmqpBrokerFlip

(* ------------------- RabbitMQ Consumer / BatchConsumer ----------------- *)
\* NewConsumer / NewBatchConsumer: not consuming, fresh stopCh and doneCh
ConsNew ==
    [consuming |-> FALSE, stopClosed |-> FALSE, stopping |-> FALSE,
     pc |-> "none", ret |-> "none", loops |-> 0, gen |-> 0,
     chanClosed |-> FALSE, sawClosed |-> FALSE]

\* c.processor: NewBatchConsumer builds its embedded Consumer without one
ProcessorIsNil == bcfg.kind = "batch"

\* a Start that never finds the consumer started
AlreadyStartedNever(b) == FALSE

\* Start: "if c.consuming" under c.mu.Lock()
AlreadyStarted(b) == b.consuming

\* Start(ctx).  BatchConsumer declares no Start: a call on it is the
\* promoted method of the embedded Consumer, whose receiver is that
\* Consumer, so "go c.consume(ctx)" starts Consumer.consume for both kinds
ConsStart ==
    /\ ConsFrame
    /\ ~bpanic /\ ~bs.stopping
    /\ IF AlreadyStarted(bs)
       THEN bs' = [bs EXCEPT !.ret = "consumer already started"]
       ELSE bs' = [bs EXCEPT !.consuming = TRUE, !.pc = "top", !.ret = "nil",
                             !.loops = @ + 1]
    /\ UNCHANGED <<bcfg, bup, bq, bhandled, bbatch, bget, bctx, bpanic>>

\* Consumer.consume, top of the outer loop: return when stopCh is closed,
\* otherwise (once the connection is there and Qos and Consume succeed)
\* enter the delivery loop; doneCh is closed on return
ConsLoopTop ==
    /\ ConsFrame
    /\ ~bpanic /\ bs.pc = "top"
    /\ IF bs.stopClosed
       THEN bs' = [bs EXCEPT !.pc = "returned", !.loops = @ - 1]
       ELSE /\ bup
            /\ bs' = [bs EXCEPT !.pc = "recv", !.chanClosed = FALSE]
    /\ UNCHANGED <<bcfg, bup, bq, bhandled, bbatch, bget, bctx, bpanic>>

\* the broker delivers a message to the consumer's deliveries channel
ConsDeliver ==
    /\ ConsFrame
    /\ ~bpanic /\ bs.pc = "recv" /\ ~bs.chanClosed
    /\ bq + bhandled.acked + bhandled.nacked < MaxDeliveries
    /\ bq' = bq + 1
    /\ UNCHANGED <<bcfg, bs, bup, bhandled, bbatch, bget, bctx, bpanic>>

\* Consumer.consume, case delivery := <-deliveries: processDelivery calls
\* c.processor.Process, a nil-pointer panic when the processor is nil;
\* after an error the message is nacked, otherwise acked
ConsReceive(procErr) ==
    /\ ConsFrame
    /\ ~bpanic /\ bs.pc = "recv" /\ bq > 0
    /\ bq' = bq - 1
    /\ IF ProcessorIsNil
       THEN /\ ~procErr
            /\ bpanic' = TRUE
            /\ bhandled' = bhandled
       ELSE /\ bpanic' = bpanic
            /\ bhandled' = IF procErr
                           THEN [bhandled EXCEPT !.nacked = @ + 1]
                           ELSE [bhandled EXCEPT !.acked = @ + 1]
    /\ UNCHANGED <<bcfg, bs, bup, bbatch, bget, bctx>>

\* Consumer.consume, case delivery, ok := <-deliveries with ok false (the
\* channel is closed and drained): the break leaves the select statement,
\* and the delivery loop goes to its next iteration
ConsRecvClosed ==
    /\ ConsFrame
    /\ ~bpanic /\ bs.pc = "recv" /\ bs.chanClosed /\ bq = 0
    /\ bs' = [bs EXCEPT !.sawClosed = TRUE, !.pc = "recv"]
    /\ UNCHANGED <<bcfg, bup, bq, bhandled, bbatch, bget, bctx, bpanic>>

\* Consumer.consume, case <-c.stopCh in the delivery loop: return
ConsStopSeen ==
    /\ ConsFrame
    /\ ~bpanic /\ bs.pc = "recv" /\ bs.stopClosed
    /\ bs' = [bs EXCEPT !.pc = "returned", !.loops = @ - 1]
    /\ UNCHANGED <<bcfg, bup, bq, bhandled, bbatch, bget, bctx, bpanic>>

\* Stop(): nil when not consuming; otherwise close(stopCh) and wait on
\* doneCh with the lock held
ConsStopBegin ==
    /\ ConsFrame
    /\ ~bpanic /\ ~bs.stopping
    /\ IF ~bs.consuming
       THEN bs' = [bs EXCEPT !.ret = "nil"]
       ELSE /\ bs.gen < MaxRestarts
            /\ bs' = [bs EXCEPT !.stopClosed = TRUE, !.stopping = TRUE,
                                !.ret = "none"]
    /\ UNCHANGED <<bcfg, bup, bq, bhandled, bbatch, bget, bctx, bpanic>>

\* Stop() after <-c.doneCh: consuming = false, new stopCh and doneCh
ConsStopEnd ==
    /\ ConsFrame
    /\ ~bpanic /\ bs.stopping /\ bs.pc = "returned"
    /\ bs' = [ConsNew EXCEPT !.ret = "nil", !.gen = bs.gen + 1,
                             !.loops = bs.loops]
    /\ UNCHANGED <<bcfg, bup, bq, bhandled, bbatch, bget, bctx, bpanic>>

\* BatchConsumer.GetBatch(ctx): the batch in batchCh, or ctx.Err() when
\* the context is done (either when both are ready)
ConsGetBatch(takeBatch) ==
    /\ ConsFrame
    /\ ~bpanic /\ bcfg.kind = "batch"
    /\ IF takeBatch
       THEN /\ bbatch > 0
            /\ bget' = [kind |-> "batch", size |-> bbatch]
            /\ bbatch' = 0
       ELSE /\ bctx
            /\ bget' = [kind |-> "context error", size |-> 0]
            /\ bbatch' = bbatch
    /\ UNCHANGED <<bcfg, bs, bup, bq, bhandled, bctx, bpanic>>

\* the context of GetBatch times out or is cancelled; the next call gets a
\* new context
ConsCtxFlip ==
    /\ ConsFrame
    /\ ~bpanic /\ bcfg.kind = "batch"
    /\ bctx' = ~bctx
    /\ UNCHANGED <<bcfg, bs, bup, bq, bhandled, bbatch, bget, bpanic>>

\* the connection goes away or comes back; when it goes away the
\* deliveries channel of a running subscription is closed.  The consume
\* goroutine reads IsConnected() at the top of its outer loop only
ConsConnFlip ==
    /\ ConsFrame
    /\ ~bpanic
    /\ bup' = ~bup
    /\ bs' = IF bup /\ bs.pc = "recv"
             THEN [bs EXCEPT !.chanClosed = TRUE]
             ELSE bs
    /\ UNCHANGED <<bcfg, bq, bhandled, bbatch, bget, bctx, bpanic>>

ConsInit ==
    /\ bcfg \in [kind : {"consumer", "batch"}, batchSize : 1..MaxBatchSize]
    /\ bs = ConsNew
    /\ bup = TRUE
    /\ bq = 0
    /\ bhandled = [acked |-> 0, nacked |-> 0]
    /\ bbatch = 0
    /\ bget = [kind |-> "none", size |-> 0]
    /\ bctx = FALSE
    /\ bpanic = FALSE

\* the state of the variables of a consumer nobody uses
ConsIdle ==
    /\ bcfg = [kind |-> "consumer", batchSize |-> 1]
    /\ bs = ConsNew
    /\ bup = TRUE /\ bq = 0 /\ bhandled = [acked |-> 0, nacked |-> 0]
    /\ bbatch = 0 /\ bget = [kind |-> "none", size |-> 0]
    /\ bctx = FALSE /\ bpanic = FALSE

ConsNext ==
    \/ ConsStart
    \/ ConsLoopTop
    \/ ConsDeliver
    \/ \E procErr \in BOOLEAN : ConsReceive(procErr)
    \/ ConsRecvClosed
    \/ ConsStopSeen
    \/ ConsStopBegin
    \/ ConsStopEnd
    \/ \E takeBatch \in BOOLEAN : ConsGetBatch(takeBatch)
    \/ ConsCtxFlip
    \/ ConsConnFlip

(* ----------------------- Kafka partition consumer ---------------------- *)
\* the goroutine waits in its select
KafkaWaiting == [pc |-> "select", cur |-> [id |-> 0, n |-> 0], idx |-> 0]

\* a consumer that abandons its batch after a processing error
KafkaAfterRecordStop(idx, n, err) ==
    IF err THEN "select" ELSE IF idx < n THEN "process" ELSE "commit"

\* "for _, rec := range recs": after record idx of n, whatever Process
\* returned (an error is only printed), the next record or the commit
KafkaAfterRecord(idx, n, err) == IF idx < n THEN "process" ELSE "commit"

\* poll(): s.consumers[tp].recs <- p.Records, a batch of n records; the
\* consumer is in the map until lost() closes its quit channel
KafkaPoll(n) ==
    /\ KafkaFrame
    /\ ~kpanic /\ ~kquit
    /\ ksent < MaxBatches /\ Len(krecs) < MaxBuffered
    /\ ksent' = ksent + 1
    /\ krecs' = Append(krecs, [id |-> ksent + 1, n |-> n])
    /\ UNCHANGED <<kp, klog, kquit, kpanic>>

\* consume(), case recs := <-pc.recs
KafkaTake ==
    /\ KafkaFrame
    /\ ~kpanic /\ kp.pc = "select" /\ krecs # <<>>
    /\ krecs' = Tail(krecs)
    /\ kp' = [pc |-> KafkaAfterRecord(0, Head(krecs).n, FALSE),
              cur |-> Head(krecs), idx |-> 1]
    /\ UNCHANGED <<klog, kquit, ksent, kpanic>>

\* consume(): pc.service.Process(ctx, rec) on record idx of the batch
KafkaProcess(err) ==
    /\ KafkaFrame
    /\ ~kpanic /\ kp.pc = "process"
    /\ klog' = Append(klog, [e |-> "process", b |-> kp.cur.id, k |-> kp.idx,
                             err |-> err])
    /\ kp' = [kp EXCEPT !.pc = KafkaAfterRecord(kp.idx, kp.cur.n, err),
                        !.idx = @ + 1]
    /\ UNCHANGED <<krecs, kquit, ksent, kpanic>>

\* consume(): pc.cl.CommitRecords(ctx, recs...); an error is printed with
\* the offset of recs[len(recs)-1], which panics on an empty batch
KafkaCommit(err) ==
    /\ KafkaFrame
    /\ ~kpanic /\ kp.pc = "commit"
    /\ klog' = Append(klog, [e |-> "commit", b |-> kp.cur.id, k |-> kp.cur.n,
                             err |-> err])
    /\ kpanic' = (err /\ kp.cur.n = 0)
    /\ kp' = KafkaWaiting
    /\ UNCHANGED <<krecs, kquit, ksent>>

\* lost(): close(pc.quit)
KafkaLost ==
    /\ KafkaFrame
    /\ ~kpanic /\ ~kquit
    /\ kquit' = TRUE
    /\ UNCHANGED <<krecs, kp, klog, ksent, kpanic>>

\* consume(), case <-pc.quit: return (done is closed)
KafkaQuit ==
    /\ KafkaFrame
    /\ ~kpanic /\ kp.pc = "select" /\ kquit
    /\ kp' = [kp EXCEPT !.pc = "done"]
    /\ UNCHANGED <<krecs, klog, kquit, ksent, kpanic>>

\* assigned(): a new pconsumer with an empty recs channel, its goroutine
\* started
KafkaInit ==
    /\ krecs = <<>>
    /\ kp = KafkaWaiting
    /\ klog = <<>>
    /\ kquit = FALSE
    /\ ksent = 0
    /\ kpanic = FALSE

KafkaNext ==
    \/ \E n \in 0..MaxBatchLen : KafkaPoll(n)
    \/ KafkaTake
    \/ \E err \in BOOLEAN : KafkaProcess(err)
    \/ \E err \in BOOLEAN : KafkaCommit(err)
    \/ KafkaLost
    \/ KafkaQuit

(* ------------- RabbitMQ Connection.Connect: the dial loop -------------- *)
\* a Connection on which Connect(ctx) is about to be called
DialNew(valid, maxRetries) ==
    [valid |-> valid, maxRetries |-> maxRetries, pc |-> "start", i |-> 0,
     dials |-> <<>>, conn |-> 0, err |-> "nil", stored |-> 0, closed |-> {},
     expired |-> FALSE, ret |-> "none", spawned |-> FALSE, panic |-> FALSE]

\* the state of the variable when no Connect call is looked at
DialIdle == dl = DialNew(TRUE, 0)

\* where the default case of the select goes on after amqp.Dial: the break
\* of "if err == nil" leaves the select statement only, so the for loop
\* goes to its next iteration whatever the dial returned
DialAfterDial(d, ok) == "loop"

\* Connect: c.mu.Lock(), Validate, the ConnTimeout context, the loop entry
DialStart ==
    /\ DialFrame
    /\ dl.pc = "start"
    /\ dl' = IF dl.valid
             THEN [dl EXCEPT !.pc = "loop"]
             ELSE [dl EXCEPT !.pc = "done", !.ret = "invalid config"]

\* one iteration of the for loop, default case: conn, err = amqp.Dial(uri),
\* the sleep after a failed dial, and i++
DialOnce(ok) ==
    /\ DialFrame
    /\ dl.pc = "loop" /\ dl.i <= dl.maxRetries /\ ~dl.expired
    /\ dl' = [dl EXCEPT !.dials = Append(@, IF ok THEN "ok" ELSE "err"),
                        !.conn = IF ok THEN Len(dl.dials) + 1 ELSE 0,
                        !.err = IF ok THEN "nil" ELSE "set",
                        !.i = @ + 1,
                        !.pc = DialAfterDial(dl, ok)]

\* one iteration of the for loop, case <-connectCtx.Done(): the error return
DialTimeout ==
    /\ DialFrame
    /\ dl.pc = "loop" /\ dl.i <= dl.maxRetries /\ dl.expired
    /\ dl' = [dl EXCEPT !.pc = "done", !.ret = "connection timeout"]

\* the loop condition i <= MaxRetries fails
DialLoopEnd ==
    /\ DialFrame
    /\ dl.pc = "loop" /\ dl.i > dl.maxRetries
    /\ dl' = [dl EXCEPT !.pc = "after"]

\* after the loop: the error return, or c.conn = conn, conn.Channel() and
\* either the close and the error return or the two goroutines and nil.
\* When the loop body never ran (MaxRetries < 0) conn and err are both nil
\* and conn.Channel() dereferences the nil connection: Connect panics.
DialFinish(channelOk) ==
    /\ DialFrame
    /\ dl.pc = "after"
    /\ dl' = IF dl.err # "nil"
             THEN [dl EXCEPT !.pc = "done", !.ret = "failed to connect"]
             ELSE IF dl.conn = 0
             THEN [dl EXCEPT !.pc = "done", !.panic = TRUE]
             ELSE IF ~channelOk
             THEN [dl EXCEPT !.pc = "done", !.stored = dl.conn,
                             !.closed = @ \cup {dl.conn},
                             !.ret = "failed to open channel"]
             ELSE [dl EXCEPT !.pc = "done", !.stored = dl.conn,
                             !.spawned = TRUE, !.ret = "nil"]

\* the ConnTimeout of connectCtx runs out (or the caller's context ends)
DialCtxExpire ==
    /\ DialFrame
    /\ dl.pc \in {"start", "loop"} /\ ~dl.expired
    /\ dl' = [dl EXCEPT !.expired = TRUE]

\* NewConnection(cfg) with any configuration: Validate() does not look at
\* MaxRetries, so a negative value is accepted like any other
DialInit ==
    dl \in {DialNew(valid, m) : valid \in BOOLEAN, m \in (-1)..MaxDialRetries}

DialNext ==
    \/ DialStart
    \/ \E ok \in BOOLEAN : DialOnce(ok)
    \/ DialTimeout
    \/ DialLoopEnd
    \/ \E channelOk \in BOOLEAN : DialFinish(channelOk)
    \/ DialCtxExpire

(* ------------------- Kafka splitConsume: rebalances -------------------- *)
\* The client is built with BlockRebalanceOnPoll: the group's callbacks
\* (assigned, lost) run one at a time and never between the return of
\* PollRecords and AllowRebalance, and PollRecords does not return while a
\* callback runs.  The group assigns only partitions the client does not
\* own, revokes or loses only partitions it owns, and fetches only from
\* partitions it owns.
RebCallbackMayRun == ~rb.panic /\ ~rb.inLost /\ ~rb.inPoll

\* &pconsumer{...} for a partition, and "go pc.consume()"
NewPconsumer(part) ==
    [part |-> part, quit |-> FALSE, done |-> FALSE, recs |-> 0, late |-> FALSE]

\* the pconsumers created for the partitions of a set, one after the other
RECURSIVE AssignAll(_, _)
AssignAll(r, P) ==
    IF P = {} THEN r
    ELSE LET part == CHOOSE x \in P : \A y \in P : x <= y
         IN  AssignAll([r EXCEPT !.pcs = Append(@, NewPconsumer(part)),
                                 !.consumers[part] = Len(r.pcs) + 1],
                       P \ {part})

\* splitConsume.assigned: a new pconsumer per partition, stored in the map
\* and started
RebAssigned(P) ==
    /\ RebFrame
    /\ RebCallbackMayRun
    /\ P # {} /\ P \cap rb.owned = {}
    /\ Len(rb.pcs) + Cardinality(P) <= MaxConsumers
    /\ rb' = [AssignAll(rb, P) EXCEPT !.owned = @ \cup P]

\* the loop of lost() over the partitions of a set: pc := s.consumers[tp],
\* delete, close(pc.quit) (a nil pointer dereference when the map has no
\* consumer for the partition), and a goroutine that waits for pc.done
RECURSIVE LoseAll(_, _)
LoseAll(r, P) ==
    IF P = {} \/ r.panic THEN r
    ELSE LET part == CHOOSE x \in P : \A y \in P : x <= y
             c == r.consumers[part]
         IN  IF c = 0
             THEN [r EXCEPT !.panic = TRUE, !.cause = "nil consumer"]
             ELSE LoseAll([r EXCEPT !.consumers[part] = 0,
                                    !.pcs[c].quit = TRUE,
                                    !.waiting = @ \cup {c}],
                          P \ {part})

\* splitConsume.lost, up to its return statement: the deferred wg.Wait()
\* is still to run
RebLost(P) ==
    /\ RebFrame
    /\ RebCallbackMayRun
    /\ P # {} /\ P \subseteq rb.owned
    /\ rb' = [LoseAll(rb, P) EXCEPT !.inLost = TRUE, !.owned = @ \ P]

\* a lost() that does not wait for the partition consumers
WaitDoneNoWait(r) == TRUE

\* wg.Wait() returns: every goroutine of lost() has received from the done
\* channel of its pconsumer
WaitDone(r) == \A c \in r.waiting : r.pcs[c].done

\* splitConsume.lost returns
RebLostReturn ==
    /\ RebFrame
    /\ ~rb.panic /\ rb.inLost /\ WaitDone(rb)
    /\ rb' = [rb EXCEPT !.inLost = FALSE, !.waiting = {}]

\* pconsumer.consume, case <-pc.quit: return, and the deferred
\* close(pc.done)
RebConsumerQuit(c) ==
    /\ RebFrame
    /\ ~rb.panic /\ rb.pcs[c].quit /\ ~rb.pcs[c].done
    /\ rb' = [rb EXCEPT !.pcs[c].done = TRUE]

\* pconsumer.consume, case recs := <-pc.recs: the batch is processed and
\* committed
RebConsumerTake(c) ==
    /\ RebFrame
    /\ ~rb.panic /\ ~rb.pcs[c].done /\ rb.pcs[c].recs > 0
    /\ rb' = [rb EXCEPT !.pcs[c].recs = @ - 1]

\* poll(): cl.PollRecords returns fetches with records of the partitions F
RebPollRecords(F, fetchErr) ==
    /\ RebFrame
    /\ RebCallbackMayRun
    /\ F # {} /\ F \subseteq rb.owned /\ rb.polls < MaxPolls
    /\ rb' = IF fetchErr
             THEN \* fetches.EachError: panic(err), nothing is handed out
                  [rb EXCEPT !.inPoll = TRUE, !.polls = @ + 1,
                             !.panic = TRUE, !.cause = "fetch error"]
             ELSE [rb EXCEPT !.inPoll = TRUE, !.pending = F, !.polls = @ + 1]

\* poll(), EachPartition: s.consumers[tp].recs <- p.Records.  The send
\* blocks while the channel is full; on a missing consumer it is a nil
\* pointer dereference
RebDeliver(part) ==
    /\ RebFrame
    /\ ~rb.panic /\ rb.inPoll /\ part \in rb.pending
    /\ LET c == rb.consumers[part]
       IN  IF c = 0
           THEN rb' = [rb EXCEPT !.panic = TRUE, !.cause = "nil consumer"]
           ELSE /\ rb.pcs[c].recs < MaxBuffered
                /\ rb' = [rb EXCEPT !.pcs[c].recs = @ + 1,
                                    !.pcs[c].late = rb.pcs[c].quit,
                                    !.pending = @ \ {part}]

\* poll(): cl.AllowRebalance() after every partition was handed out
RebAllowRebalance ==
    /\ RebFrame
    /\ ~rb.panic /\ rb.inPoll /\ rb.pending = {}
    /\ rb' = [rb EXCEPT !.inPoll = FALSE]

\* Connect: a splitConsume with an empty map, before the first rebalance
RebInit ==
    rb = [consumers |-> [part \in Partitions |-> 0], pcs |-> <<>>,
          owned |-> {}, waiting |-> {}, inLost |-> FALSE, pending |-> {},
          inPoll |-> FALSE, polls |-> 0, panic |-> FALSE, cause |-> "none"]

RebNext ==
    \/ \E P \in SUBSET Partitions : RebAssigned(P)
    \/ \E P \in SUBSET Partitions : RebLost(P)
    \/ RebLostReturn
    \/ \E c \in 1..Len(rb.pcs) : RebConsumerQuit(c)
    \/ \E c \in 1..Len(rb.pcs) : RebConsumerTake(c)
    \/ \E F \in SUBSET Partitions : \E fetchErr \in BOOLEAN :
         RebPollRecords(F, fetchErr)
    \/ \E part \in Partitions : RebDeliver(part)
    \/ RebAllowRebalance

(* ---------------------- Kafka Connection.Connect ----------------------- *)
\* NewConnection(cfg) followed by RegisterService for the topics of a set
KconnNew(valid, topics, services) ==
    [valid |-> valid, topics |-> topics, services |-> services,
     todo |-> {}, clients |-> [t \in Topics |-> 0], made |-> <<>>,
     pc |-> "start", ret |-> "none"]

\* the state of the variable when no Kafka Connection is looked at
KconnIdle == kc = KconnNew(TRUE, {}, {})

\* "for _, client := range c.clients { client.Close() }": Close is called
\* on every client the map holds; the map is left as it is
CloseRegistered(k) ==
    [k EXCEPT !.made = [i \in 1..Len(k.made) |->
                          IF \E t \in Topics : k.clients[t] = i
                          THEN [k.made[i] EXCEPT !.closes = @ + 1]
                          ELSE k.made[i]]]

\* how one iteration of the loop of Connect can go
KconnOutcomes == {"ok", "new client error", "ping error"}

\* Connect: Validate, the test for registered services, the loop entry
KconnStart ==
    /\ KconnFrame
    /\ kc.pc = "start"
    /\ kc' = IF ~kc.valid
             THEN [kc EXCEPT !.pc = "done", !.ret = "invalid config"]
             ELSE IF kc.services = {}
             THEN [kc EXCEPT !.pc = "done", !.ret = "no services registered"]
             ELSE [kc EXCEPT !.pc = "loop", !.todo = kc.services]

\* one iteration of "for topic, service := range c.services" (a map: the
\* order is not specified): the topic must be in the config; kgo.NewClient
\* and cl.Ping; on an error of either the clients of c.clients are closed
\* and the error is returned; otherwise the client is registered
KconnTopic(topic, outcome) ==
    /\ KconnFrame
    /\ kc.pc = "loop" /\ topic \in kc.todo
    /\ kc' =
         IF topic \notin kc.topics
         THEN [kc EXCEPT !.pc = "done", !.ret = "topic is not in config"]
         ELSE IF outcome = "new client error"
         THEN [CloseRegistered(kc) EXCEPT !.pc = "done",
                                          !.ret = "new client error"]
         ELSE IF outcome = "ping error"
         THEN [CloseRegistered([kc EXCEPT !.made =
                    Append(@, [topic |-> topic, closes |-> 0])])
                 EXCEPT !.pc = "done", !.ret = "ping error"]
         ELSE [kc EXCEPT !.made = Append(@, [topic |-> topic, closes |-> 0]),
                         !.clients[topic] = Len(kc.made) + 1,
                         !.todo = @ \ {topic}]

\* the loop has visited every registered topic: return nil
KconnFinish ==
    /\ KconnFrame
    /\ kc.pc = "loop" /\ kc.todo = {}
    /\ kc' = [kc EXCEPT !.pc = "done", !.ret = "nil"]

\* Connection.Close(): every client of c.clients is closed and the map is
\* replaced by an empty one
KconnClose ==
    /\ KconnFrame
    /\ kc.pc = "done"
    /\ kc' = [CloseRegistered(kc) EXCEPT !.pc = "closed",
                                        !.clients = [t \in Topics |-> 0]]

KconnInit ==
    kc \in {KconnNew(valid, topics, services) :
              valid \in BOOLEAN, topics \in SUBSET Topics,
              services \in SUBSET Topics}

KconnNext ==
    \/ KconnStart
    \/ \E topic \in Topics : \E outcome \in KconnOutcomes :
         KconnTopic(topic, outcome)
    \/ KconnFinish
    \/ KconnClose

(* --------------------------- specification ----------------------------- *)
\* the configurations a manager is constructed with (a Slave config is only
\* supplied together with UseSlaveConnection)
\* intervalOk: HealthCheckInterval > 0, which Validate() does not require
\* (the interval is only read when HealthCheckEnabled is set)
\* failoverRetries: 0 (with any value <= 0 the reconnect loops end at once)
\* or MaxFailoverRetries
Configs ==
    {c \in [master : CfgStates, slave : CfgStates, useSlave : BOOLEAN,
            autoFailover : BOOLEAN, healthCheck : BOOLEAN,
            failoverRetries : {0, MaxFailoverRetries}, intervalOk : BOOLEAN] :
        /\ ~c.useSlave => c.slave = "nil"
        /\ ~c.healthCheck => c.intervalOk}

\* NewMasterSlaveConnection(cfg): role "master", empty slots, no ticker
MgrNew ==
    /\ up = [side \in Sides |-> TRUE]
    /\ masterConn = 0
    /\ slaveConn = 0
    /\ role = "master"
    /\ hs = <<>>
    /\ tickers = <<>>
    /\ healthTicker = 0
    /\ stopClosed = FALSE
    /\ mu = 0
    /\ rd = RdIdle
    /\ closeMasterErr = FALSE
    /\ mon = <<>>
    /\ pcC = "idle"
    /\ nCalls = 0
    /\ closed = FALSE
    /\ panicked = FALSE
    /\ trace = <<>>

MgrInit == cfg \in Configs /\ MgrNew

MgrNext ==
    \/ ConnectBegin
    \/ \E ok \in BOOLEAN : ConnectMaster(ok)
    \/ \E ok \in BOOLEAN : ConnectSlave(ok)
    \/ ConnectCleanup
    \/ CloseBegin
    \/ \E mFails \in BOOLEAN : CloseMaster(mFails)
    \/ \E sFails \in BOOLEAN : CloseSlave(sFails)
    \/ \E k \in 1..Len(mon) : MonEnter(k)
    \/ \E k \in 1..Len(mon) : MonStop(k)
    \/ \E k \in 1..Len(mon) : MonTick(k)
    \/ \E k \in 1..Len(mon) : MonLock(k)
    \/ \E k \in 1..Len(mon) : MonPingMaster(k)
    \/ \E k \in 1..Len(mon) : \E live \in BOOLEAN : MonMasterPinged(k, live)
    \/ \E k \in 1..Len(mon) : \E live \in BOOLEAN : MonSlavePinged(k, live)
    \/ \E k \in 1..Len(mon) :
         \E ok, live \in BOOLEAN : MonMasterAttempt(k, ok, live)
    \/ \E k \in 1..Len(mon) : MonMasterClose(k)
    \/ \E k \in 1..Len(mon) : MonMasterSet(k)
    \/ \E k \in 1..Len(mon) :
         \E ok, live \in BOOLEAN : MonSlaveAttempt(k, ok, live)
    \/ \E k \in 1..Len(mon) : MonSlaveClose(k)
    \/ \E k \in 1..Len(mon) : MonSlaveSet(k)
    \/ \E t \in 1..Len(tickers) : TickerFire(t)
    \/ \E side \in Sides : EndpointFlip(side)
    \/ GetMasterClient
    \/ GetSlaveClient
    \/ IsHealthyBegin
    \/ IsHealthyPingMaster
    \/ \E live \in BOOLEAN : IsHealthyMasterPinged(live)
    \/ \E live \in BOOLEAN : IsHealthySlavePinged(live)
    \/ StatsBegin
    \/ StatsCall

\* the state of the variables of the manager when nobody uses it
MgrIdle ==
    /\ cfg = [master |-> "nil", slave |-> "nil", useSlave |-> FALSE,
              autoFailover |-> FALSE, healthCheck |-> FALSE,
              failoverRetries |-> 0, intervalOk |-> TRUE]
    /\ up = [side \in Sides |-> TRUE]
    /\ masterConn = 0 /\ slaveConn = 0 /\ role = "master"
    /\ hs = <<>> /\ tickers = <<>> /\ healthTicker = 0
    /\ stopClosed = FALSE /\ mu = 0 /\ rd = RdIdle /\ closeMasterErr = FALSE
    /\ mon = <<>> /\ pcC = "idle"
    /\ nCalls = 0 /\ closed = FALSE /\ panicked = FALSE /\ trace = <<>>

\* the manager runs; the single Connection and the Redis connection of the
\* other two specifications are not used
Init == MgrInit /\ ConnIdle /\ RedisIdle /\ AmqpIdle /\ ConsIdle
    /\ KafkaInit /\ DialIdle /\ RebInit /\ KconnIdle

Next == MgrNext

Spec == Init /\ [][Next]_vars

\* one Connection.Connect call runs
ConnSpecInit == ConnInit /\ MgrIdle /\ RedisIdle /\ AmqpIdle /\ ConsIdle
    /\ KafkaInit /\ DialIdle /\ RebInit /\ KconnIdle

ConnSpec == ConnSpecInit /\ [][ConnNext]_vars

\* one Redis Sentinel or Cluster connection is used
RedisSpecInit == RedisInit /\ MgrIdle /\ ConnIdle /\ AmqpIdle /\ ConsIdle
    /\ KafkaInit /\ DialIdle /\ RebInit /\ KconnIdle

RedisSpec == RedisSpecInit /\ [][RedisNext]_vars

\* the default configuration (DefaultMasterSlaveConfig): both endpoint
\* configurations valid, UseSlaveConnection, AutoFailover, FailoverRetries
\* 3, HealthCheckEnabled with an interval of 30 s
DefaultCfg ==
    [master |-> "ok", slave |-> "ok", useSlave |-> TRUE, autoFailover |-> TRUE,
     healthCheck |-> TRUE, failoverRetries |-> 3, intervalOk |-> TRUE]

\* a manager with the default configuration; the ticker, the health
\* goroutines and the calls in progress are scheduled fairly, and a
\* goroutine waiting in c.mu.Lock() gets the lock (sync.RWMutex holds back
\* new readers while a writer waits)
FairInit ==
    /\ cfg = DefaultCfg /\ MgrNew
    /\ ConnIdle /\ RedisIdle /\ AmqpIdle /\ ConsIdle
    /\ KafkaInit /\ DialIdle /\ RebInit /\ KconnIdle

Fairness ==
    /\ WF_vars(\E t \in 1..Len(tickers) : TickerFire(t))
    /\ WF_vars(\E k \in 1..Len(mon) : MonEnter(k))
    /\ WF_vars(\E k \in 1..Len(mon) : MonTick(k))
    /\ WF_vars(\E k \in 1..Len(mon) : MonStop(k))
    /\ SF_vars(\E k \in 1..Len(mon) : MonLock(k))
    /\ WF_vars(\E k \in 1..Len(mon) : MonPingMaster(k))
    /\ WF_vars(\E k \in 1..Len(mon) :
                 \E live \in BOOLEAN : MonMasterPinged(k, live))
    /\ WF_vars(\E k \in 1..Len(mon) :
                 \E live \in BOOLEAN : MonSlavePinged(k, live))
    /\ WF_vars(\E k \in 1..Len(mon) :
                 \E ok, live \in BOOLEAN : MonMasterAttempt(k, ok, live))
    /\ WF_vars(\E k \in 1..Len(mon) : MonMasterClose(k))
    /\ WF_vars(\E k \in 1..Len(mon) : MonMasterSet(k))
    /\ WF_vars(\E k \in 1..Len(mon) :
                 \E ok, live \in BOOLEAN : MonSlaveAttempt(k, ok, live))
    /\ WF_vars(\E k \in 1..Len(mon) : MonSlaveClose(k))
    /\ WF_vars(\E k \in 1..Len(mon) : MonSlaveSet(k))
    /\ WF_vars(IsHealthyPingMaster)
    /\ WF_vars(\E live \in BOOLEAN : IsHealthyMasterPinged(live))
    /\ WF_vars(\E live \in BOOLEAN : IsHealthySlavePinged(live))
    /\ WF_vars(StatsCall)
    /\ WF_vars(\E f \in BOOLEAN : CloseMaster(f))
    /\ WF_vars(\E f \in BOOLEAN : CloseSlave(f))
    /\ WF_vars(\E ok \in BOOLEAN : ConnectMaster(ok))
    /\ WF_vars(\E ok \in BOOLEAN : ConnectSlave(ok))
    /\ WF_vars(ConnectCleanup)

FairSpec == FairInit /\ [][Next]_vars /\ Fairness

\* one RabbitMQ Connection is used; its goroutines are scheduled fairly,
\* and a reconnect that can succeed infinitely often does succeed
AmqpSpecInit == AmqpInit /\ MgrIdle /\ ConnIdle /\ RedisIdle /\ ConsIdle
    /\ KafkaInit /\ DialIdle /\ RebInit /\ KconnIdle

AmqpFairness ==
    /\ WF_vars(AmqpCloseChannelClosed)
    /\ WF_vars(AmqpCloseConnClosed)
    /\ WF_vars(\E ok, expired \in BOOLEAN : AmqpDialed(ok, expired))
    /\ SF_vars(AmqpDialed(TRUE, FALSE))
    /\ WF_vars(\E ok \in BOOLEAN : AmqpChannelOpened(ok))
    /\ SF_vars(AmqpChannelOpened(TRUE))
    /\ WF_vars(\E i \in 1..Len(ah) : AmqpHandlerEnter(i))
    /\ WF_vars(\E i \in 1..Len(ah) : AmqpHandlerCheck(i))
    /\ WF_vars(\E i \in 1..Len(ah) :
                 \E expired \in BOOLEAN : AmqpHandlerReconnect(i, expired))
    /\ SF_vars(\E i \in 1..Len(ah) : AmqpHandlerReconnect(i, FALSE))
    /\ WF_vars(\E i \in 1..Len(ah) : AmqpHandlerResend(i))
    /\ WF_vars(\E i \in 1..Len(ah) : AmqpHandlerStop(i))
    /\ WF_vars(\E k \in 1..Len(am) : AmqpMonStart(k))
    /\ WF_vars(\E k \in 1..Len(am) :
                 \E err \in {"nilptr", "set"} : AmqpMonNotified(k, err))
    /\ WF_vars(\E k \in 1..Len(am) : AmqpMonSignal(k))
    /\ WF_vars(\E k \in 1..Len(am) : AmqpMonStop(k))

AmqpFairSpec == AmqpSpecInit /\ [][AmqpNext]_vars /\ AmqpFairness

\* one RabbitMQ Consumer or BatchConsumer is used
ConsSpecInit == ConsInit /\ MgrIdle /\ ConnIdle /\ RedisIdle /\ AmqpIdle
    /\ KafkaInit /\ DialIdle /\ RebInit /\ KconnIdle

ConsSpec == ConsSpecInit /\ [][ConsNext]_vars

\* one Kafka partition consumer runs
KafkaSpecInit ==
    KafkaInit /\ MgrIdle /\ ConnIdle /\ RedisIdle /\ AmqpIdle /\ ConsIdle
    /\ DialIdle /\ RebInit /\ KconnIdle

KafkaSpec == KafkaSpecInit /\ [][KafkaNext]_vars

\* one RabbitMQ Connection.Connect call runs its dial loop
DialSpecInit ==
    DialInit /\ MgrIdle /\ ConnIdle /\ RedisIdle /\ AmqpIdle /\ ConsIdle
    /\ KafkaInit /\ RebInit /\ KconnIdle

DialSpec == DialSpecInit /\ [][DialNext]_vars

\* the partition consumers of one Kafka client go through rebalances
RebSpecInit ==
    RebInit /\ MgrIdle /\ ConnIdle /\ RedisIdle /\ AmqpIdle /\ ConsIdle
    /\ KafkaInit /\ DialIdle /\ KconnIdle

RebSpec == RebSpecInit /\ [][RebNext]_vars

\* one Kafka Connection is connected and closed
KconnSpecInit ==
    KconnInit /\ MgrIdle /\ ConnIdle /\ RedisIdle /\ AmqpIdle /\ ConsIdle
    /\ KafkaInit /\ DialIdle /\ RebInit

KconnSpec == KconnSpecInit /\ [][KconnNext]_vars

\* the handle in the primary / replica slot would answer a ping made now
\* with a live context
MasterProbe == masterConn # 0 /\ ConnIsHealthy(hs, masterConn, TRUE)
SlaveProbe == slaveConn # 0 /\ ConnIsHealthy(hs, slaveConn, TRUE)

\* what IsHealthy(ctx) returns when it runs from the current state with a
\* context that stays live, and nothing else runs meanwhile
IsHealthyNow == MasterProbe \/ (IsHealthyTriesSlave /\ SlaveProbe)

\* the slot of a side
Slot(side) == IF side = "master" THEN masterConn ELSE slaveConn

\* the health goroutines started so far
Monitors == 1..Len(mon)

\* this step is the step health goroutine i makes from position pc
Stepped(i, pc) == mon[i].pc = pc /\ mon'[i] # mon[i]

\* the latest step was (a step of) the named operation
Did(op) == trace # <<>> /\ trace[1].e = op

\* the last event of the latest step
LastEv == trace[Len(trace)]

\* the positions of the events e on side in the latest step
Positions(e, side) ==
    {k \in 1..Len(trace) : trace[k].e = e /\ trace[k].side = side}

\* C1: with autoFailover, a replica and health checking configured, a health
\* check whose probe of the primary failed and whose probe of the replica
\* succeeds ends there with the role "slave" (IsSlave, not IsMaster), and
\* IsHealthy() is true after it (on the handle probed, if the replica slot
\* still holds it).
C1_Promotion ==
    [][\A i \in Monitors :
         (/\ Stepped(i, "pingS")
          /\ cfg.autoFailover /\ cfg.useSlave /\ cfg.healthCheck
          /\ ~mon[i].mh
          /\ trace'[1] = Ev("probe", "slave", mon[i].h, "ok"))
         => (/\ IsSlave' /\ ~IsMaster'
             /\ slaveConn = mon[i].h => IsHealthyNow'
             /\ mon'[i].pc = "top" /\ mu' = 0)]_vars

C1_Witness ==
    /\ cfg.autoFailover
    /\ masterConn # 0 /\ ~MasterProbe
    /\ Len(trace) = 2
    /\ trace[1] = Ev("probe", "slave", slaveConn, "ok")
    /\ trace[2].e = "demote"
    /\ IsSlave /\ IsHealthyNow

\* C2 (as claimed): once the manager is degraded and the primary's probes
\* succeed again, the role returns to "master" (unless the primary fails
\* again, or the owner calls Close() or Connect() first).
C2_Recovery ==
    (IsSlave /\ MasterProbe /\ pcC = "idle" /\ nCalls = 1)
        ~> (IsMaster \/ ~MasterProbe \/ closed \/ nCalls > 1 \/ panicked)

\* C3 (as claimed): when a reconnect invokes Close on the previous handle of
\* a slot, the new handle is already installed in that slot, and the
\* previous handle is closed exactly once (stated for the health checks
\* that follow a single Connect()).
C3_CloseAfterInstall ==
    (pcC = "idle" /\ nCalls = 1) =>
        \A k \in 1..Len(trace) :
            (trace[k].e = "close" /\ trace[1].e \in {"close", "attempt"}) =>
                /\ Slot(trace[k].side) # trace[k].h
                /\ hs[trace[k].h].closes = 1

\* C4 (as claimed): a Close() called again after Close() does not panic,
\* returns nil, and no handle has had Close invoked on it twice.
C4_CloseTwice ==
    (Did("Close") /\ trace[1].v = "again") =>
        /\ LastEv.e # "panic"
        /\ LastEv.e = "return" => LastEv.v = "nil"
        /\ \A h \in 1..Len(hs) : hs[h].closes <= 1

\* C5 (as claimed): after Close() has returned no health check runs and both
\* slots stay empty.
C5_MonitorStopped ==
    closed => (masterConn = 0 /\ slaveConn = 0 /\ ~Did("checkHealth"))

\* C6 (as claimed): once Connect has returned on a valid configuration and a
\* context that was never cancelled, either it returned nil, stored the pool
\* of the last attempt made (no attempt follows a success) after at most
\* MaxRetries+1 attempts, or every one of exactly MaxRetries+1 attempts
\* failed, it returned an error wrapping the error of the last attempt, and
\* stored no pool.
C6_AsClaimed ==
    (cpc = "done" /\ ccfg.valid /\ ~ctxDone) =>
        \/ /\ cret.kind = "nil"
           /\ clast = "ok"
           /\ cattempts \in 1..(ccfg.maxRetries + 1)
           /\ cpool = cattempts
        \/ /\ cret = [kind |-> "failed to connect", wraps |-> cattempts]
           /\ clast # "ok"
           /\ cattempts = ccfg.maxRetries + 1
           /\ cpool = 0

\* the latest step was a step of an accessor
AccessorRan ==
    /\ trace # <<>>
    /\ trace[1].e \in {"GetMasterClient", "GetSlaveClient", "IsHealthy", "Stats"}

\* C7: the role is always exactly one of "master" and "slave" (IsMaster and
\* IsSlave are never both true nor both false); it changes only in a step
\* of the health goroutine that holds the write lock, and no accessor runs
\* while the write lock is held.
C7_RoleExclusive ==
    /\ [](IsMaster # IsSlave)
    /\ [](rd.pc # "idle" => mu = 0)
    /\ [][/\ IsMaster' # IsSlave'
          /\ role' # role => (mu > 0 /\ mon'[mu] # mon[mu])
          /\ AccessorRan' => (mu = 0 /\ mu' = 0)]_vars

\* a primary reconnect has stored its handle and set the role, and the
\* check goes on, the lock still held
C7_Witness ==
    /\ trace # <<>>
    /\ trace[Len(trace)] = Ev("install", "master", masterConn, "")
    /\ \E h \in 1..Len(hs) : hs[h].side = "slave" /\ hs[h].closes = 0
    /\ IsMaster /\ ~IsSlave /\ mu > 0

\* C8 (as claimed): a handle GetMasterClient()/GetSlaveClient() return is
\* one whose Connect has completed successfully.
C8_NoHalfInitialized ==
    ((Did("GetMasterClient") \/ Did("GetSlaveClient")) /\ trace[1].h # 0)
        => trace[1].v = "ok"

\* the latest step on the Redis connection was (a step of) the named
\* operation; it was the return of the named operation
RedisDid(op) == rtrace # <<>> /\ rtrace[1].e = op
RedisReturned(op) ==
    /\ rtrace # <<>>
    /\ rtrace[Len(rtrace)].e = "return" /\ rtrace[Len(rtrace)].side = op

\* C9 (as claimed): Close() has closed both clients whatever the first
\* close returned, both slots are empty after it, and it returns nil only
\* if no close failed.
C9_CloseBoth ==
    RedisReturned("Close") =>
        /\ ~rmaster.set /\ ~rslave.set
        /\ (rtrace[Len(rtrace)].v = "nil") =>
               /\ ~rpc.mErr
               /\ \A k \in 1..Len(rtrace) :
                      rtrace[k].e = "close" => rtrace[k].v = "ok"

\* C10 (as claimed): Close() signals the health goroutine first, closes the
\* replica handle before the primary handle (when Close is invoked on the
\* primary handle the replica slot is already empty), and returns the first
\* error in that order, naming the side.
C10_CloseOrder ==
    /\ Did("Close") =>
          \A k \in Positions("close", "master") \cup Positions("close", "slave") :
              /\ \A j \in Positions("stopSignal", "-") : j < k
              /\ trace[k].side = "master" => slaveConn = 0
    /\ (trace # <<>> /\ LastEv.e = "return"
          /\ \E j \in Positions("closed", "slave") : trace[j].v = "err")
          => LastEv.v = "error closing slave connection"

\* in the latest step a reconnect of the side ran (an attempt was made, or
\* its loop ended)
ReconnectRan(side) ==
    \E k \in 1..Len(trace) :
        trace[k].side = side /\ trace[k].e \in {"attempt", "exhausted"}

\* in the latest step a new handle was installed in the slot of the side
Installed(side) == Positions("install", side) # {}

\* in the latest step the reconnect loop of the side ended without success
Exhausted(side) == Positions("exhausted", side) # {}

\* the configuration is invalid: the primary's is missing or invalid, or a
\* replica is to be used and its configuration is missing or invalid
InvalidConfig ==
    \/ cfg.master \in {"nil", "invalid"}
    \/ (cfg.useSlave /\ cfg.slave \in {"nil", "invalid"})

\* C11: with an invalid configuration every Connect() is one step that
\* returns the configuration error, and in every reachable state no handle
\* exists, both slots are empty, and no ticker and no health goroutine was
\* started.
C11_InvalidConfig ==
    InvalidConfig =>
        /\ masterConn = 0 /\ slaveConn = 0 /\ hs = <<>>
        /\ tickers = <<>> /\ mon = <<>> /\ healthTicker = 0
        /\ pcC = "idle"
        /\ Did("Connect") =>
               trace = <<Ev("Connect", "-", 0, ""),
                         Ev("return", "-", 0, "invalid master-slave config")>>

C11_Witness ==
    /\ cfg.master = "ok" /\ cfg.useSlave /\ cfg.slave = "invalid"
    /\ Did("Connect")
    /\ LastEv = Ev("return", "-", 0, "invalid master-slave config")
    /\ nCalls = 2

\* C12 (as claimed): when UseSlaveConnection is false, in every reachable
\* state the replica slot is empty, no replica handle exists,
\* HasSlaveConnected() is false and GetSlaveClient() returns nil.
C12_NoReplicaHandle ==
    ~cfg.useSlave =>
        /\ slaveConn = 0
        /\ ~HasSlaveConnected
        /\ \A h \in 1..Len(hs) : hs[h].side # "slave"
        /\ Did("GetSlaveClient") => trace[1].v = "nil"
        /\ Positions("install", "slave") = {}

\* C13 (as claimed): a health check that runs in role "master" with
\* autoFailover off and whose probe of the primary failed leaves the role
\* "master" and goes on to a primary reconnect, whatever its probe of the
\* replica returns (stated for the health checks that follow a single
\* Connect()).
C13_NoDegradeReconnect ==
    [][\A i \in Monitors :
         (/\ Stepped(i, "pingS") /\ IsMaster /\ ~cfg.autoFailover /\ ~mon[i].mh
          /\ cfg.failoverRetries > 0
          /\ pcC = "idle" /\ nCalls = 1)
         => (IsMaster' /\ (mon'[i].pc = "mRec" \/ ReconnectRan("master")'))]_vars

\* C14 (as claimed): a health check that runs in role "slave" and whose
\* probe of the primary failed goes on to a primary reconnect, whatever its
\* probe of the replica returns, the role being "slave" until a new primary
\* handle is installed (stated for the health checks that follow a single
\* Connect()).
C14_DegradedReconnect ==
    [][\A i \in Monitors :
         (/\ Stepped(i, "pingS") /\ IsSlave /\ ~mon[i].mh
          /\ cfg.failoverRetries > 0
          /\ pcC = "idle" /\ nCalls = 1)
         => (/\ mon'[i].pc = "mRec" \/ ReconnectRan("master")'
             /\ IsSlave')]_vars

\* the handle h is the same in the next state: same connection state, same
\* number of Close invocations
HandleUntouched(h) == h # 0 => hs'[h] = hs[h]

\* this step of health goroutine i has found both probes of its check
\* failed: it sets slaveHealthy to false, masterHealthy being false
BothProbesFailed(i) ==
    /\ mon[i].pc \in {"lock", "pingM", "pingS"} /\ mon'[i] # mon[i]
    /\ \E k \in 1..Len(trace') :
           trace'[k].e = "probe" /\ trace'[k].side = "slave" /\ trace'[k].v = "err"
    /\ IF mon[i].pc = "pingS" THEN ~mon[i].mh
       ELSE \E k \in 1..Len(trace') :
                trace'[k].e = "probe" /\ trace'[k].side = "master"
                   /\ trace'[k].v = "err"

\* this step of health goroutine i ends its primary reconnect
MasterReconnectEnds(i) ==
    /\ mon[i].pc \in {"mRec", "mSet"} /\ mon'[i] # mon[i]
    /\ mon'[i].pc \notin {"mRec", "mClose", "mSet"}

\* C15 (as claimed): a health check whose probes both failed goes on to a
\* primary reconnect and, when a replica is configured (UseSlaveConnection),
\* to a replica reconnect as well once the primary reconnect has ended,
\* whether or not that installed a handle; the role is unchanged unless a
\* new primary handle was installed (stated for FailoverRetries > 0: with
\* 0 neither loop makes an attempt).
C15_BothDown ==
    [][\A i \in Monitors :
        /\ BothProbesFailed(i) =>
              /\ role' = role
              /\ cfg.failoverRetries > 0 => (mon'[i].pc = "mRec" /\ mu' = i)
        /\ MasterReconnectEnds(i) =>
              IF cfg.useSlave
              THEN mon'[i].pc = "sRec" /\ mu' = i
              ELSE mon'[i].pc = "top" /\ mu' = 0
        /\ (Stepped(i, "mRec") /\ ~panicked') =>
              /\ ReconnectRan("master")'
              /\ role' = role \/ Installed("master")'
        /\ (Stepped(i, "mClose") /\ ~panicked') =>
              (role' = role /\ mon'[i].pc = "mSet")
        /\ Stepped(i, "mSet") => Installed("master")'
        /\ (Stepped(i, "sRec") /\ ~panicked') =>
              (ReconnectRan("slave")' /\ role' = role)
        /\ (Stepped(i, "sClose") /\ ~panicked') =>
              (role' = role /\ mon'[i].pc = "sSet")
        /\ Stepped(i, "sSet") => (Installed("slave")' /\ role' = role)]_vars

\* C16: a health check whose probe of the primary succeeded and whose probe
\* of the handle in the replica slot fails runs the replica reconnect
\* only: no step of it changes the role, the primary slot or the primary
\* handle (its number of Close invocations included).
C16_ReplicaOnly ==
    [][\A i \in Monitors :
        /\ (/\ Stepped(i, "pingS") /\ mon[i].mh
            /\ trace'[1].v = "err" /\ slaveConn # 0) =>
              /\ mon'[i].pc = "sRec" \/ Exhausted("slave")'
              /\ ~ReconnectRan("master")'
              /\ role' = role /\ masterConn' = masterConn
              /\ HandleUntouched(masterConn)
        /\ (Stepped(i, "sRec") \/ Stepped(i, "sClose") \/ Stepped(i, "sSet")) =>
              /\ \/ ReconnectRan("slave")' \/ Installed("slave")'
                 \/ Positions("close", "slave")' # {} \/ panicked'
              /\ ~ReconnectRan("master")'
              /\ mon'[i].pc \in {"sRec", "sClose", "sSet", "top"}
              /\ role' = role /\ masterConn' = masterConn
              /\ HandleUntouched(masterConn)]_vars

\* in role "slave", with the first primary handle still in its slot, never
\* closed and healthy, a replica reconnect has installed a new handle
C16_Witness ==
    /\ Installed("slave") /\ slaveConn = 3
    /\ IsSlave
    /\ masterConn = 1 /\ hs[1].closes = 0 /\ MasterProbe
    /\ hs[2].closes = 1

\* C17: a reconnect attempt that fails, and the end of a reconnect loop
\* without success, leave the role, both slots and every handle as they
\* were (the existing handle of the side is not closed), and nothing is
\* raised (the health check goes on or returns normally).
C17_Exhaustion ==
    [][(\/ Exhausted("master")' \/ Exhausted("slave")'
        \/ (Did("attempt")' /\ trace'[1].v = "err"))
       => /\ UNCHANGED <<masterConn, slaveConn, role, hs, panicked>>
          /\ \A i \in Monitors :
               mon'[i] # mon[i] =>
                  mon'[i].pc \in {"mRec", "sRec", "top"}]_vars

C17_Witness ==
    /\ cfg.failoverRetries = MaxFailoverRetries
    /\ trace = <<Ev("attempt", "master", 0, "err"), Ev("sleep", "master", 0, ""),
                 Ev("exhausted", "master", 0, "")>>
    /\ masterConn # 0 /\ hs[masterConn].closes = 0
    /\ slaveConn # 0 /\ hs[slaveConn].closes = 0
    /\ \E i \in Monitors : mon[i].pc = "sRec" /\ mu = i

\* the position of a health goroutine in the reconnect loop of a side, and
\* those of the success branch of the loop
RecPc(side) == IF side = "master" THEN "mRec" ELSE "sRec"
ClosePc(side) == IF side = "master" THEN "mClose" ELSE "sClose"
SetPc(side) == IF side = "master" THEN "mSet" ELSE "sSet"

\* C18: a reconnect loop is at an attempt only while fewer than
\* FailoverRetries attempts were made (so with FailoverRetries = 0 no
\* attempt is made, and the check changes nothing unless it demotes); a
\* successful attempt ends the loop: its handle is the next thing stored
\* in the slot (after the Close of the one the slot held), and no further
\* attempt is made for the side; after a successful primary reconnect the
\* role is "master", a replica reconnect leaves the role alone; a failed
\* attempt installs nothing and is followed by the next attempt exactly
\* when fewer than FailoverRetries attempts were made.
C18_BoundedReconnect ==
    /\ [](\A i \in Monitors :
            mon[i].pc \in {"mRec", "sRec"} => mon[i].i < cfg.failoverRetries)
    /\ [][\A i \in Monitors :
          /\ \A side \in Sides :
               /\ (Stepped(i, RecPc(side)) /\ ~panicked') =>
                    /\ Did("attempt")' /\ trace'[1].side = side
                    /\ trace'[1].v = "ok" =>
                          /\ hs'[Len(hs')] =
                                 [side |-> side, st |-> "ok", closes |-> 0]
                          /\ mon'[i].h = Len(hs')
                          /\ mon'[i].pc = IF Slot(side) # 0
                                          THEN ClosePc(side) ELSE SetPc(side)
                          /\ UNCHANGED <<masterConn, slaveConn, role>>
                    /\ trace'[1].v = "err" =>
                          /\ ~Installed(side)'
                          /\ role' = role
                          /\ (mon'[i].pc = RecPc(side))
                                <=> (mon[i].i + 1 < cfg.failoverRetries)
                          /\ mon'[i].pc = RecPc(side) => mon'[i].i = mon[i].i + 1
               /\ (Stepped(i, ClosePc(side)) /\ ~panicked') =>
                    /\ mon'[i].pc = SetPc(side) /\ mon'[i].h = mon[i].h
                    /\ UNCHANGED <<masterConn, slaveConn, role>>
               /\ Stepped(i, SetPc(side)) =>
                    /\ Slot(side)' = mon[i].h
                    /\ LastEv' = Ev("install", side, mon[i].h, "")
                    /\ mon'[i].pc \notin {RecPc(side), ClosePc(side), SetPc(side)}
                    /\ role' = IF side = "master" THEN "master" ELSE role
          /\ (mon[i].pc \in {"lock", "pingM", "pingS"} /\ mon'[i] # mon[i]
                /\ cfg.failoverRetries = 0) =>
                 /\ mon'[i].pc \in {"m2", "pingM", "pingS", "top"}
                 /\ (trace' = <<>> \/ LastEv'.e # "demote") =>
                       UNCHANGED <<masterConn, slaveConn, role, hs>>]_vars

\* a primary reconnect has succeeded with FailoverRetries = 2: the new
\* handle is in the slot, the one it replaced was closed once, and the
\* check goes on to the replica reconnect
C18_Witness ==
    /\ cfg.failoverRetries = 2
    /\ Installed("master") /\ IsMaster
    /\ hs[masterConn].closes = 0
    /\ \E h \in 1..Len(hs) : hs[h].side = "master" /\ hs[h].closes = 1
    /\ \E i \in Monitors : mon[i].pc = "sRec" /\ mon[i].i = 0

\* a health goroutine is inside checkHealth and one of its probes or
\* reconnect attempts is running
ProbeInFlight == \E i \in Monitors : mon[i].pc \in {"pingM", "pingS", "mRec", "sRec"}

\* C19 (as claimed): while the probes and reconnects of a health check are
\* in flight the write lock is not held, so GetMasterClient() can complete.
C19_NoLockDuringProbe ==
    ProbeInFlight => (mu = 0 /\ ENABLED GetMasterClient)

\* C20 (as claimed): every step that writes the primary slot, the replica
\* slot or the role is made by the holder of the write lock: the health
\* goroutine inside checkHealth, or Close().
C20_WritesLocked ==
    [][(masterConn' # masterConn \/ slaveConn' # slaveConn \/ role' # role)
       => \/ (mu > 0 /\ mon'[mu] # mon[mu])
          \/ (mu = OwnerLock /\ pcC \in {"closeM", "closeS"})]_vars

\* a health check is between two reconnect attempts: an attempt has failed
\* and the next one follows the time.Sleep(FailoverInterval)
WaitedBetweenAttempts ==
    \E i \in Monitors : mon[i].pc \in {"mRec", "sRec"} /\ mon[i].i > 0

\* the owner thread is free to call Close(), and has not called it before
OwnerCanCall == ~panicked /\ pcC = "idle" /\ nCalls < MaxCalls /\ ~stopClosed

\* C21 (as claimed): a Close() issued while a health check waits between
\* reconnect attempts terminates without waiting for the remaining waits
\* and no further attempt follows: while a health check is between two
\* reconnect attempts, a Close() the owner calls can go ahead.
C21_StopHonored ==
    (WaitedBetweenAttempts /\ OwnerCanCall) => ENABLED CloseBegin

\* C22: when the context is cancelled while Connect waits between two
\* attempts (RetryInterval > 0), the next step of Connect is its return of
\* the context error: no further attempt is made and c.pool stays nil.
C22_CancelDuringWait ==
    [][(cpc = "wait" /\ ctxDone /\ ~ccfg.retryZero) =>
          /\ cpc' = "done"
          /\ cret' = [kind |-> "context error", wraps |-> 0]
          /\ cattempts' = cattempts
          /\ cpool' = 0]_vars

C22_Witness ==
    /\ cpc = "done" /\ ctxDone /\ ~ccfg.retryZero
    /\ cret.kind = "context error"
    /\ cattempts = 1 /\ ccfg.maxRetries = 2
    /\ cpool = 0

\* C23: an attempt returns no error only if it pinged, with success,
\* everything it opened, and then it closed nothing; an attempt that
\* returns an error has closed everything it opened, is recorded as the
\* latest error and stores no pool; when Connect returns nil and has stored
\* a pool, it is the pool of its latest attempt and that attempt returned
\* no error; it returns nil with nothing stored only when it made no
\* attempt at all (MaxRetries < 0).
C23_PingBeforeAccept ==
    /\ clast # "none" =>
          /\ ~cres.err => /\ cres.opened # {}
                          /\ cres.pinged = cres.opened
                          /\ cres.closed = {}
          /\ cres.pinged # cres.opened => cres.err
          /\ cres.err => /\ cres.closed = cres.opened
                         /\ cerr = cattempts
                         /\ cpool = 0
                         /\ cret.kind # "nil"
    /\ cret.kind = "nil" =>
          IF cpool # 0
          THEN clast # "none" /\ ~cres.err /\ cpool = cattempts
          ELSE cattempts = 0 /\ ccfg.maxRetries < 0

C23_Witness ==
    /\ cpc = "done" /\ cret.kind = "failed to connect"
    /\ clast = "conn ping error"
    /\ cres.opened = {"pool", "conn"} /\ cres.closed = {"pool", "conn"}
    /\ cres.pinged = {"pool"}

\* C24 (as claimed): Stats() returns the statistics of the handle the
\* primary slot holds at the time of the call, and the zero value whenever
\* no primary handle exists: before the first Connect(), after Close() (the
\* slot is nil then) and after a Connect() that left no connected primary.
C24_Stats ==
    (Did("Stats") /\ trace[1].v \in {"stats", "zero"}) =>
        /\ (masterConn # 0 /\ hs[masterConn].st = "ok")
              => (trace[1].h = masterConn /\ trace[1].v = "stats")
        /\ (masterConn = 0 \/ hs[masterConn].st # "ok")
              => trace[1].v = "zero"
        /\ (nCalls = 0 \/ closed) => (masterConn = 0 /\ trace[1].v = "zero")
        /\ (pcC = "idle" /\ nCalls > 0
              /\ \A h \in 1..Len(hs) : hs[h].side = "master" => hs[h].st # "ok")
              => trace[1].v = "zero"

\* C25: IsHealthy(ctx) returns true if and only if the primary handle
\* exists and is healthy (its own IsHealthy(ctx) answers true), or only the
\* replica is healthy: the primary handle is missing or not healthy,
\* autoFailover is enabled, and the replica handle exists and is healthy.
\* So it returns false when no handle exists, when both sides are
\* unhealthy, and when only the replica is healthy with autoFailover
\* disabled.  Stated call by call and step by step: what IsHealthy returned
\* it returned on a healthy handle, the replica's only with autoFailover;
\* the first test of c.masterConn, the answer of the primary and the
\* answer of the replica each decide as stated, and the second read of
\* c.masterConn asks the handle it finds.
C25_IsHealthy ==
    /\ []((Did("IsHealthy") /\ trace[1].v = "true") =>
            /\ trace[1].h # 0 /\ ConnIsHealthy(hs, trace[1].h, TRUE)
            /\ trace[1].side = "slave" => cfg.autoFailover)
    /\ [][/\ IsHealthyBegin =>
               IF masterConn # 0 THEN rd'.pc = "ih2"
               ELSE IF cfg.autoFailover /\ slaveConn # 0
               THEN rd'.pc = "ihS" /\ rd'.h = slaveConn
               ELSE rd'.pc = "idle" /\ trace'[1].v = "false"
          /\ (IsHealthyPingMaster /\ masterConn # 0) =>
               (rd'.pc = "ihM" /\ rd'.h = masterConn)
          /\ \A live \in BOOLEAN : IsHealthyMasterPinged(live) =>
               IF ConnIsHealthy(hs, rd.h, live)
               THEN rd'.pc = "idle" /\ trace'[1].v = "true"
               ELSE IF cfg.autoFailover /\ slaveConn # 0
               THEN rd'.pc = "ihS" /\ rd'.h = slaveConn
               ELSE rd'.pc = "idle" /\ trace'[1].v = "false"
          /\ \A live \in BOOLEAN : IsHealthySlavePinged(live) =>
               /\ rd'.pc = "idle"
               /\ trace'[1].v = IF ConnIsHealthy(hs, rd.h, live)
                                THEN "true" ELSE "false"]_vars

\* only the replica is healthy, autoFailover is enabled, and IsHealthy()
\* has answered true on the replica's health (the role being "master"
\* still: no health check has run since the primary went down)
C25_Witness ==
    /\ Did("IsHealthy") /\ trace[1].v = "true" /\ trace[1].side = "slave"
    /\ pcC = "idle" /\ IsMaster
    /\ cfg.autoFailover /\ ~MasterProbe /\ SlaveProbe

\* the health goroutines that have not returned
RunningMonitors == {i \in 1..Len(mon) : mon[i].pc # "exited"}

\* C26 (as claimed): after any sequence of Connect() and Close() calls at
\* most one health goroutine is running.
C26_OneMonitor == Cardinality(RunningMonitors) <= 1

\* C27 (as claimed): a client has Close invoked on it only when no slot
\* holds it any more, so an accessor called after Connect() returned never
\* hands out a client that has been closed.
C27_NoClosedHandle ==
    [][(/\ RedisReturned("Connect")
        /\ RedisDid("GetMasterClient")' \/ RedisDid("GetSlaveClient")')
          => rtrace'[1].v # "closed"]_vars

\* C28 (as claimed): once the close notification of a lost connection has
\* fired, Close() was not called and a reconnect attempt has failed (the
\* reconnection goroutine waits RetryTimeout), the connection tries again,
\* so while the broker is reachable IsConnected() becomes true again (or
\* the broker goes away again, or the process is ended, or the model's
\* bound on connections is reached).
C28_Reconnects ==
    (/\ ac.connError # "nil" /\ ~ac.isConnected
     /\ ~ac.closeChClosed /\ aup
     /\ \E i \in 1..Len(ah) : ah[i] = "sleep")
      ~> (\/ ac.isConnected \/ ac.closeChClosed \/ ~aup \/ apanic
          \/ Len(aconns) = MaxAmqpConns)

\* C29 (as claimed): after BatchConsumer.Start() no delivery is handed to a
\* nil processor (the deliveries are accumulated for GetBatch instead), and
\* GetBatch() returns a batch of batchSize messages or the context's error.
C29_BatchConsuming ==
    bcfg.kind = "batch" =>
        /\ ~bpanic
        /\ bget.kind = "batch" => bget.size = bcfg.batchSize

\* the positions of the CommitRecords calls in the log
KafkaCommits == {p \in 1..Len(klog) : klog[p].e = "commit"}

\* C30: every CommitRecords call covers the whole batch and comes right
\* after the Process calls on all the records of that batch, in order and
\* whatever they returned; when the consumer is back in its select every
\* batch it took has been committed; the loop ends only by the quit signal,
\* and a Process error never ends the process.
C30_ProcessThenCommit ==
    /\ \A p \in KafkaCommits :
          /\ p > klog[p].k
          /\ \A k \in 1..klog[p].k :
                 LET ev == klog[p - klog[p].k + k - 1]
                 IN  ev.e = "process" /\ ev.b = klog[p].b /\ ev.k = k
    /\ kp.pc \in {"select", "done"} =>
          Cardinality(KafkaCommits) = ksent - Len(krecs)
    /\ kp.pc = "done" => kquit
    /\ kpanic => klog[Len(klog)].e = "commit"

\* a batch of two records, both failed, was committed
C30_Witness ==
    /\ kp.pc = "select"
    /\ \E p \in KafkaCommits :
          /\ klog[p].k = 2
          /\ klog[p - 1].e = "process" /\ klog[p - 1].err
          /\ klog[p - 2].e = "process" /\ klog[p - 2].err

\* C31: with HealthCheckEnabled false no ticker and no health goroutine is
\* ever created, the role stays "master", and outside the owner's own
\* Connect() and Close() calls no step replaces a slot or touches a handle
\* (no Close, no reconnect), whatever the endpoints' health.
C31_NoMonitor ==
    [][~cfg.healthCheck =>
          /\ mon' = <<>> /\ tickers' = <<>> /\ healthTicker' = 0
          /\ role' = "master"
          /\ (pcC = "idle" /\ pcC' = "idle" /\ nCalls' = nCalls)
                => UNCHANGED <<masterConn, slaveConn, hs>>]_vars

\* Connect() succeeded with the health check disabled, both endpoints went
\* away afterwards and a caller still gets the handles of that Connect()
C31_Witness ==
    /\ ~cfg.healthCheck /\ cfg.useSlave /\ cfg.autoFailover
    /\ pcC = "idle" /\ nCalls = 1
    /\ ~up["master"] /\ ~up["slave"]
    /\ Did("GetMasterClient") /\ trace[1].h = 1 /\ trace[1].v = "ok"
    /\ slaveConn = 2 /\ hs[1].closes = 0 /\ hs[2].closes = 0
    /\ role = "master" /\ mon = <<>>

\* the latest step was the return of nil from Connect()
ConnectReturnedNil ==
    /\ trace # <<>> /\ trace[1].e = "connect"
    /\ LastEv.e = "return" /\ LastEv.v = "nil"

\* C32: a Connect() that returns nil leaves a connected handle in the
\* primary slot, and from then on no step other than the start of the
\* owner's next Connect() or Close() call empties the slot: not a step of a
\* health check, whether its reconnects fail or succeed, and not a role
\* change; so GetMasterClient() returns a handle, never the empty slot, in
\* that interval.
C32_NoEmptyPrimary ==
    [][/\ ConnectReturnedNil' =>
            (masterConn' # 0 /\ hs'[masterConn'].st = "ok")
       /\ (masterConn # 0 /\ pcC = "idle" /\ nCalls' = nCalls) =>
            masterConn' # 0
       /\ (Did("GetMasterClient")' /\ masterConn # 0 /\ pcC = "idle") =>
            (trace'[1].h = masterConn /\ trace'[1].v # "typed nil")]_vars

\* a health check has exhausted its reconnects to the primary, the role is
\* "slave", and GetMasterClient() still returns the handle Connect() stored
C32_Witness ==
    /\ Did("GetMasterClient") /\ trace[1].h = 1 /\ trace[1].v = "ok"
    /\ pcC = "idle" /\ nCalls = 1 /\ ~closed
    /\ role = "slave" /\ ~up["master"] /\ ~up["slave"]
    /\ slaveConn > 2

\* the latest step was an error return of Connect() after a connect attempt
ConnectReturnedError ==
    /\ trace # <<>> /\ trace[1].e \in {"connect", "clear"}
    /\ LastEv.e = "return" /\ LastEv.v # "nil"

\* C33 (as claimed): when Connect() returns an error, both slots are empty
\* (GetMasterClient() returns nil, HasSlaveConnected() is false), a primary
\* handle that was connected has been closed exactly once, and the call has
\* started no health goroutine.
C33_AllOrNothing ==
    (ConnectReturnedError /\ nCalls = 1) =>
        /\ masterConn = 0
        /\ ~HasSlaveConnected
        /\ \A h \in 1..Len(hs) :
              (hs[h].side = "master" /\ hs[h].st = "ok") => hs[h].closes = 1
        /\ mon = <<>>

\* C34 (as claimed): a reconnect attempt is not failed by the expired probe
\* context of its health check: an attempt of the primary reconnect that
\* is made after the probe context has run out, while the endpoint accepts
\* connections, succeeds: its handle is the next one stored in the slot.
C34_FullAttempts ==
    [][\A i \in Monitors :
         (/\ Stepped(i, "mRec") /\ ~mon[i].live
          /\ up["master"] /\ Len(hs) < MaxHandles
          /\ pcC = "idle" /\ nCalls = 1)
         => mon'[i].pc \in {"mClose", "mSet"}]_vars

\* C35 (as claimed): Connect dials at most MaxRetries+1 times, no dial is
\* made after a successful one, the connection it stores is that of the
\* successful dial, and Connect returns nil exactly when some dial
\* succeeded and the channel could be opened.
C35_DialUntilSuccess ==
    /\ Len(dl.dials) <= dl.maxRetries + 1
    /\ \A k \in 1..Len(dl.dials) : dl.dials[k] = "ok" => k = Len(dl.dials)
    /\ dl.stored # 0 => dl.dials[dl.stored] = "ok"
    /\ dl.pc = "done" =>
          (dl.ret = "nil" <=>
              /\ \E k \in 1..Len(dl.dials) : dl.dials[k] = "ok"
              /\ dl.ret # "failed to open channel")

\* C36 (as claimed): once Close() has returned, and until the owner calls
\* the Connection again, no reconnection takes place: IsConnected() is
\* false and stays false, and no new broker connection is dialled.
C36_NoReconnectAfterClose ==
    /\ [](aclosed => ~ac.isConnected)
    /\ [][(aclosed /\ aclosed') => Len(aconns') = Len(aconns)]_vars

\* C37: at most one consume goroutine runs per Consumer; Start() on a
\* started consumer returns an error and starts nothing; Start() on a
\* consumer that is not consuming finds no loop running and starts one;
\* Stop() on a consumer that is not consuming returns nil and changes
\* nothing; Stop() returns only after the consume goroutine has returned,
\* and leaves a consumer that is not consuming, with a fresh stopCh, on
\* which Start() starts a new loop.
C37_Lifecycle ==
    [][/\ bs.loops' <= 1
       /\ (ConsStart /\ bs.consuming) =>
             bs' = [bs EXCEPT !.ret = "consumer already started"]
       /\ (ConsStart /\ ~bs.consuming) =>
             /\ bs.loops = 0 /\ bs.loops' = 1
             /\ bs.consuming' /\ bs.ret' = "nil"
       /\ (ConsStopBegin /\ ~bs.consuming) => bs' = [bs EXCEPT !.ret = "nil"]
       /\ ConsStopEnd =>
             /\ bs.pc = "returned" /\ bs.loops = 0
             /\ ~bs.consuming' /\ bs.loops' = 0 /\ bs.ret' = "nil"
             /\ ~bs.stopClosed' /\ ~bs.stopping']_vars

\* the loop started by a Start() after a Stop() is receiving deliveries,
\* and a further Start() has been refused
C37_Witness ==
    /\ bcfg.kind = "consumer"
    /\ bs.gen = 1 /\ bs.consuming /\ bs.loops = 1 /\ bs.pc = "recv"
    /\ bs.ret = "consumer already started"
    /\ bhandled.acked > 0

\* C38 (as claimed): when the delivery loop finds the deliveries channel
\* closed (ok is false), it hands nothing to the processor and leaves the
\* delivery loop for the top of the consume loop, where it subscribes again
\* once the connection is available.
C38_Resubscribes ==
    [][ConsRecvClosed => (bhandled' = bhandled /\ bs.pc' = "top")]_vars

\* the pconsumers of a partition whose consume loop has not returned
RunningFor(part) ==
    {c \in 1..Len(rb.pcs) : rb.pcs[c].part = part /\ ~rb.pcs[c].done}

\* C39: when no lost() call is running, every pconsumer whose quit was
\* closed has left its consume loop (lost() returned only after that); the
\* map holds a consumer for exactly the partitions the client owns (lost()
\* removed exactly the lost ones), and for each of them it is the one
\* running consumer of that partition, with its quit open; poll() never
\* finds the map without a consumer for a fetched partition (the only
\* panic is the one poll() raises itself on a fetch error) and never sends
\* records to a consumer whose quit is closed.
C39_Rebalance ==
    /\ rb.panic => rb.cause = "fetch error"
    /\ \A c \in 1..Len(rb.pcs) :
          /\ ~rb.pcs[c].late
          /\ (~rb.inLost /\ rb.pcs[c].quit) => rb.pcs[c].done
          /\ (rb.pcs[c].quit /\ ~rb.pcs[c].done) => c \in rb.waiting
    /\ \A part \in Partitions :
          /\ part \in rb.owned <=> rb.consumers[part] # 0
          /\ part \in rb.owned =>
                /\ RunningFor(part) = {rb.consumers[part]}
                /\ ~rb.pcs[rb.consumers[part]].quit

\* partition 1 was lost and assigned again while partition 2 stayed: the
\* first consumer of partition 1 has exited, its second one and the
\* consumer of partition 2 run, and poll() has handed them records
C39_Witness ==
    /\ Len(rb.pcs) = 3 /\ ~rb.inLost /\ rb.owned = {1, 2}
    /\ rb.pcs[1].part = 1 /\ rb.pcs[1].done
    /\ rb.consumers[1] = 3 /\ rb.consumers[2] = 2
    /\ rb.pcs[3].recs > 0 /\ rb.pcs[2].recs > 0
    /\ rb.polls = MaxPolls

\* C40 (as claimed): when Connect returns an error after its loop has
\* created the client of at least one topic, every client the call
\* created (the one whose ping failed included) has been closed and
\* c.clients holds no client.
C40_CleanupOnFailure ==
    (kc.pc = "done" /\ kc.ret # "nil" /\ kc.todo # kc.services) =>
        /\ \A i \in 1..Len(kc.made) : kc.made[i].closes > 0
        /\ \A t \in Topics : kc.clients[t] = 0

====
